---- MODULE Spec2Model ----
(***************************************************************************)
(* A model of the basic-chat server: the room/presence registry, the       *)
(* moderation state and the in-band command interpreter of src/server.js   *)
(* (lines 1-938), its Redis-backed message store with the in-memory        *)
(* fallback, and the in-memory message store of src/unnamed/part_000.      *)
(*                                                                         *)
(* Text (room ids, user names, chat bodies) is a sequence of one-character *)
(* strings, so that the code's regular expression, parseInt, padStart,     *)
(* startsWith, substring and split are computed, not assumed.  A fixed     *)
(* server notice is a one-element sequence holding its text.               *)
(* Time (Date.now()) is counted in minutes.                                *)
(***************************************************************************)
EXTENDS Integers, Sequences, FiniteSets, TLC

VARIABLES
    users,          \* Map socketId -> {username, room, isAdmin}, in insertion order
    rooms,          \* Map roomId -> Set of socketIds
    admins,         \* Set of socketIds that are admins
    mutedUsers,     \* Map socketId -> unmuteTime
    sockRooms,      \* socket.io adapter: socketId -> rooms joined with socket.join
    usedIds,        \* socket ids handed out so far (an id is never reused)
    pending,        \* handlers suspended at an await / .then, and armed timeouts
    redisKeys,      \* Redis string keys: messageKey -> [data, expiresAt]
    redisLists,     \* Redis lists: roomId -> [items, expiresAt]
    fallbackStore,  \* Map roomId -> Array of message + expiresAt   (server.js)
    messageStore,   \* Map roomId -> Array of message + expiresAt   (part_000)
    nextKey,        \* number of message keys generated so far
    now,            \* Date.now(), in minutes
    lastEvent,      \* the inbound event (or timer, or store call) handled by the last step
    sent,           \* what the last step emitted, in order
    lastResult,     \* what the last store call returned
    keepAliveEnabled,  \* part_000: the keep-alive flag
    keepAliveTimer,    \* part_000: the handle in keepAliveTimer, 0 for null
    armedTimers,       \* part_000: the timeouts that are armed and will fire
    listening          \* part_000: server.listen has called back

vars == <<users, rooms, admins, mutedUsers, sockRooms, usedIds, pending,
          redisKeys, redisLists, fallbackStore, messageStore, nextKey, now,
          lastEvent, sent, lastResult,
          keepAliveEnabled, keepAliveTimer, armedTimers, listening>>

registryVars == <<users, rooms, admins, mutedUsers, sockRooms, usedIds>>
storeVars == <<redisKeys, redisLists, fallbackStore, messageStore, nextKey>>
powerVars == <<keepAliveEnabled, keepAliveTimer, armedTimers, listening>>

----------------------------------------------------------------------------
(* Text helpers *)

Digits == {"0", "1", "2", "3", "4", "5", "6", "7", "8", "9"}

DigitVal(c) ==
    CASE c = "0" -> 0 [] c = "1" -> 1 [] c = "2" -> 2 [] c = "3" -> 3
      [] c = "4" -> 4 [] c = "5" -> 5 [] c = "6" -> 6 [] c = "7" -> 7
      [] c = "8" -> 8 [] c = "9" -> 9

DigitChar(n) ==
    CASE n = 0 -> "0" [] n = 1 -> "1" [] n = 2 -> "2" [] n = 3 -> "3"
      [] n = 4 -> "4" [] n = 5 -> "5" [] n = 6 -> "6" [] n = 7 -> "7"
      [] n = 8 -> "8" [] n = 9 -> "9"

\* /^\d{3}$/.test(roomId)
TestThreeDigits(s) == Len(s) = 3 /\ \A i \in 1..3 : s[i] \in Digits

\* parseInt(roomId) of a string of decimal digits
RECURSIVE ParseInt(_)
ParseInt(s) ==
    IF s = <<>> THEN 0
    ELSE 10 * ParseInt(SubSeq(s, 1, Len(s) - 1)) + DigitVal(s[Len(s)])

\* Number.prototype.toString() of a non-negative integer
RECURSIVE NumToString(_)
NumToString(n) ==
    IF n < 10 THEN <<DigitChar(n)>>
    ELSE NumToString(n \div 10) \o <<DigitChar(n % 10)>>

\* String.prototype.padStart(width, '0')
RECURSIVE PadStart(_, _)
PadStart(s, width) == IF Len(s) >= width THEN s ELSE PadStart(<<"0">> \o s, width)

\* (mutant) no text starts with any prefix
StartsWithNever(s, p) == FALSE

\* String.prototype.startsWith
StartsWith(s, p) == Len(s) >= Len(p) /\ SubSeq(s, 1, Len(p)) = p

\* String.prototype.substring(n): the text after the first n characters
Substring(s, n) == SubSeq(s, n + 1, Len(s))

\* String.prototype.split(c) on a one-character separator
RECURSIVE Split(_, _)
Split(s, c) ==
    IF \E i \in 1..Len(s) : s[i] = c
    THEN LET i == CHOOSE k \in 1..Len(s) : s[k] = c /\ \A j \in 1..(k - 1) : s[j] # c
         IN  <<SubSeq(s, 1, i - 1)>> \o Split(SubSeq(s, i + 1, Len(s)), c)
    ELSE <<s>>

\* the default sort order of Array.prototype.sort(): by UTF-16 code unit, which
\* for the digit strings that are room ids is the order of the digits
RECURSIVE StrLess(_, _)
StrLess(a, b) ==
    IF a = <<>> THEN b # <<>>
    ELSE IF b = <<>> THEN FALSE
    ELSE IF a[1] # b[1] THEN DigitVal(a[1]) < DigitVal(b[1])
    ELSE StrLess(Tail(a), Tail(b))

----------------------------------------------------------------------------
(* Map helpers: a Map without its order is a function on its keys *)

MapSet(m, k, v) == (k :> v) @@ m
MapDelete(m, k) == [x \in (DOMAIN m) \ {k} |-> m[x]]
EmptyMap == <<>>

\* users is a Map whose iteration order matters (getUserByUsername): a sequence
\* of entries in insertion order
UserIds == {users[i].id : i \in 1..Len(users)}
UsersHas(id) == id \in UserIds
UserIndex(id) == CHOOSE i \in 1..Len(users) : users[i].id = id
UsersGet(id) == users[UserIndex(id)]
UsersDelete(id) ==
    LET i == UserIndex(id)
    IN  SubSeq(users, 1, i - 1) \o SubSeq(users, i + 1, Len(users))

----------------------------------------------------------------------------
(* Inputs *)

Guest == <<"G", "u", "e", "s", "t">>
Bob == <<"b", "o", "b">>
NoText == <<>>

R001 == <<"0", "0", "1">>
R100 == <<"1", "0", "0">>

\* the sockets that may connect while the registry is explored
RegistrySockets == {"s1", "s2"}

\* what a client may pass as roomId: valid ids and ids each check rejects
RoomInputs ==
    { R001, R100, <<"0", "0", "0">>, <<"1", "0", "1">>, <<"0", "1">>, <<"0", "a", "1">> }

\* what a client may pass as a user name ("" is falsy)
NameInputs == { Bob, Guest, NoText }

\* at most this many handlers may be suspended at once
MaxPending == 1

\* at most this many of them, and beside the others, may be handlers of
\* "join room"
MaxPendingJoins == 1

\* the last minute the clock reaches
MaxTime == 5

\* at most this many chat messages are stored while the interpreter is explored
MaxChatStored == 1

----------------------------------------------------------------------------
(* Emissions *)

\* what an emission carries; a field an event does not have is empty
Payload(room, username, message, timestamp, isSystem, list) ==
    [room |-> room, username |-> username, message |-> message,
     timestamp |-> timestamp, isSystem |-> isSystem, list |-> list]

\* {username, message, room, timestamp, isSystem} of "chat message"
ChatPayload(username, message, room, timestamp, isSystem) ==
    Payload(room, username, message, timestamp, isSystem, <<>>)
\* the room id of 'room joined' and 'room left'
RoomPayload(room) == Payload(room, NoText, NoText, 0, FALSE, <<>>)
\* {username, room} of 'user joined' and 'user left'
UserPayload(username, room) == Payload(room, username, NoText, 0, FALSE, <<>>)
\* the text of 'error'
ErrorPayload(message) == Payload(NoText, NoText, message, 0, FALSE, <<>>)
\* the array of 'rooms list'
ListPayload(list) == Payload(NoText, NoText, NoText, 0, FALSE, list)

Emission(via, to, ev, data) == [via |-> via, to |-> to, ev |-> ev, data |-> data]

\* the sockets that socket.join put in a room and that are still connected
InRoom(sr, room) == {id \in DOMAIN sr : room \in sr[id]}

\* socket.emit(ev, ...): to this socket alone (nothing once it is disconnected)
SocketEmit(sr, id, ev, data) == Emission("socket", {id} \cap DOMAIN sr, ev, data)

\* io.to(socketId).emit(ev, ...): every socket is alone in the room of its own id
ToSocketEmit(sr, id, ev, data) == Emission("socket", {id} \cap DOMAIN sr, ev, data)

\* io.to(room).emit(ev, ...): to every socket joined to the room
RoomEmit(sr, target, ev, data) == Emission("room", InRoom(sr, target), ev, data)

\* socket.to(room).emit(ev, ...): to every socket joined to the room but this one
OthersEmit(sr, id, target, ev, data) ==
    Emission("room", InRoom(sr, target) \ {id}, ev, data)

\* the inbound event a step handles: its name, the socket, and its arguments
Event(ev, id, room, username, message) ==
    [ev |-> ev, id |-> id, room |-> room, username |-> username, message |-> message]

\* a handler suspended at an await, or an armed timeout; author, key and step
\* are those of a storeMessage call in progress (the name it stores, its
\* messageKey and the number of its Redis calls that have answered)
Pending(kind, id, room, username, dataUsername, message, timestamp) ==
    [kind |-> kind, id |-> id, room |-> room, username |-> username,
     dataUsername |-> dataUsername, message |-> message, timestamp |-> timestamp,
     author |-> NoText, key |-> 0, step |-> 0]

RemoveAt(q, i) == SubSeq(q, 1, i - 1) \o SubSeq(q, i + 1, Len(q))

\* how many handlers of "join room" wait for getRecentMessages
PendingJoins == Cardinality({i \in 1..Len(pending) : pending[i].kind = "join"})

----------------------------------------------------------------------------
(* The message store of src/server.js: Redis first, fallbackStore on error *)

\* setEx(messageKey, 6 * 60 * 60, ...): six hours, in minutes
MESSAGE_TTL == 360

\* expire(roomMessagesKey, 6 * 60 * 60 + 3600): the extra hour, in minutes
LIST_TTL_BUFFER == 60

\* lTrim(roomMessagesKey, 0, 199) keeps 200 keys, and part_000 keeps 200
\* messages; the number is scaled down so that a log can fill up
MAX_MESSAGES == 4

\* slice(-100) and "messages.length > 100": half of the list's length
HALF_MESSAGES == MAX_MESSAGES \div 2

\* JSON.stringify of a string: the quote and the backslash are escaped
RECURSIVE JsonEscape(_)
JsonEscape(s) ==
    IF s = <<>> THEN <<>>
    ELSE IF s[1] \in {"\"", "\\"} THEN <<"\\", s[1]>> \o JsonEscape(Tail(s))
    ELSE <<s[1]>> \o JsonEscape(Tail(s))

\* JSON.parse of a string's body: a backslash gives the character after it
RECURSIVE JsonUnescape(_)
JsonUnescape(s) ==
    IF s = <<>> THEN <<>>
    ELSE IF s[1] = "\\" /\ Len(s) >= 2 THEN <<s[2]>> \o JsonUnescape(SubSeq(s, 3, Len(s)))
    ELSE <<s[1]>> \o JsonUnescape(Tail(s))

\* JSON.stringify(messageData) and JSON.parse(messageData), field by field
JsonStringify(m) ==
    [username |-> JsonEscape(m.username), message |-> JsonEscape(m.message),
     timestamp |-> m.timestamp, room |-> JsonEscape(m.room)]
JsonParse(j) ==
    [username |-> JsonUnescape(j.username), message |-> JsonUnescape(j.message),
     timestamp |-> j.timestamp, room |-> JsonUnescape(j.room)]

\* Redis: a key with a time to live is gone once the time has passed
RedisKeyLive(keys, k, t) == k \in DOMAIN keys /\ keys[k].expiresAt > t
RedisListLive(lists, r, t) ==
    r \in DOMAIN lists /\ (lists[r].hasTTL => lists[r].expiresAt > t)

\* SETEX key seconds value
RedisSetEx(keys, k, ttl, v, t) == MapSet(keys, k, [data |-> v, expiresAt |-> t + ttl])

\* GET key: the value, or null (the empty sequence here)
RedisGet(keys, k, t) == IF RedisKeyLive(keys, k, t) THEN <<keys[k].data>> ELSE <<>>

\* LPUSH key element: at the head; a key that is gone starts a new list with no expiry
RedisLPush(lists, r, k, t) ==
    IF RedisListLive(lists, r, t)
    THEN MapSet(lists, r, [lists[r] EXCEPT !.items = <<k>> \o @])
    ELSE MapSet(lists, r, [items |-> <<k>>, hasTTL |-> FALSE, expiresAt |-> 0])

\* LTRIM key 0 stop: keeps the elements at indexes 0..stop
RedisLTrim(lists, r, stop, t) ==
    IF RedisListLive(lists, r, t)
    THEN MapSet(lists, r,
           [lists[r] EXCEPT !.items =
               IF Len(@) > stop + 1 THEN SubSeq(@, 1, stop + 1) ELSE @])
    ELSE lists

\* EXPIRE key seconds
RedisExpire(lists, r, ttl, t) ==
    IF RedisListLive(lists, r, t)
    THEN MapSet(lists, r, [lists[r] EXCEPT !.hasTTL = TRUE, !.expiresAt = t + ttl])
    ELSE lists

\* LRANGE key 0 -1
RedisLRange(lists, r, t) == IF RedisListLive(lists, r, t) THEN lists[r].items ELSE <<>>

\* (mutant) a slice that keeps everything
SliceLastAll(a, n) == a

\* Array.prototype.slice(-n): the last n elements
SliceLast(a, n) == IF Len(a) > n THEN SubSeq(a, Len(a) - n + 1, Len(a)) ELSE a

\* Array.prototype.splice(0, length - n) when length > n: drops the oldest
KeepLast(a, n) == IF Len(a) > n THEN SubSeq(a, Len(a) - n + 1, Len(a)) ELSE a

\* Array.prototype.reverse
RECURSIVE Reverse(_)
Reverse(a) == IF a = <<>> THEN <<>> ELSE Reverse(Tail(a)) \o <<a[1]>>

\* Array.prototype.filter(msg => msg.expiresAt > now)
RECURSIVE FilterLive(_, _)
FilterLive(a, t) ==
    IF a = <<>> THEN <<>>
    ELSE IF a[1].expiresAt > t THEN <<a[1]>> \o FilterLive(Tail(a), t)
    ELSE FilterLive(Tail(a), t)

\* messages.sort((a, b) => new Date(b.timestamp) - new Date(a.timestamp)):
\* a stable sort, newest first
RECURSIVE InsertNewestFirst(_, _)
InsertNewestFirst(sorted, m) ==
    IF sorted = <<>> THEN <<m>>
    ELSE IF sorted[1].timestamp >= m.timestamp
         THEN <<sorted[1]>> \o InsertNewestFirst(Tail(sorted), m)
         ELSE <<m>> \o sorted
RECURSIVE SortNewestFirst(_)
SortNewestFirst(a) ==
    IF a = <<>> THEN <<>>
    ELSE InsertNewestFirst(SortNewestFirst(SubSeq(a, 1, Len(a) - 1)), a[Len(a)])

\* the store as one value, so that a call is a function of it
Store == [keys |-> redisKeys, lists |-> redisLists, fallback |-> fallbackStore,
          n |-> nextKey]

MessageData(username, message, timestamp, roomId) ==
    [username |-> username, message |-> message, timestamp |-> timestamp, room |-> roomId]

\* the catch branch of storeMessage: push to fallbackStore, keep the last 100
StoreFallback(fb, roomId, data, t) ==
    LET old == IF roomId \in DOMAIN fb THEN fb[roomId] ELSE <<>>
        entry == [username |-> data.username, message |-> data.message,
                  timestamp |-> data.timestamp, room |-> data.room,
                  expiresAt |-> t + MESSAGE_TTL]
    IN  MapSet(fb, roomId, KeepLast(Append(old, entry), HALF_MESSAGES))

\* the Redis calls that storeMessage awaits, in their order
StoreCalls == <<"setEx", "lPush", "lTrim", "expire">>

\* one of storeMessage's Redis calls, answered at time t; messageKey (a time
\* and a random suffix) is a key never used before
StoreCallApply(st, call, roomId, key, data, t) ==
    IF call = "setEx"
    THEN [st EXCEPT !.keys = RedisSetEx(@, key, MESSAGE_TTL, JsonStringify(data), t)]
    ELSE IF call = "lPush"
    THEN [st EXCEPT !.lists = RedisLPush(@, roomId, key, t)]
    ELSE IF call = "lTrim"
    THEN [st EXCEPT !.lists = RedisLTrim(@, roomId, MAX_MESSAGES - 1, t)]
    ELSE [st EXCEPT !.lists = RedisExpire(@, roomId, MESSAGE_TTL + LIST_TTL_BUFFER, t)]

\* (mutant) a catch branch that only logs
StoreCatchDrops(st, roomId, data, t) == st

\* storeMessage when a Redis call throws at time t: the catch branch
StoreCatch(st, roomId, data, t) ==
    [st EXCEPT !.fallback = StoreFallback(@, roomId, data, t)]

\* the loop of getRecentMessages: GET each key; a null value and a GET that
\* throws are both skipped
RECURSIVE FetchMessages(_, _, _, _)
FetchMessages(keys, items, failedGets, t) ==
    IF items = <<>> THEN <<>>
    ELSE LET got == IF items[1] \in failedGets THEN <<>> ELSE RedisGet(keys, items[1], t)
         IN  (IF got = <<>> THEN <<>> ELSE <<JsonParse(got[1])>>)
                 \o FetchMessages(keys, Tail(items), failedGets, t)

\* .map(({ username, message, timestamp, room }) => ...)
RECURSIVE DropExpiresAt(_)
DropExpiresAt(a) ==
    IF a = <<>> THEN <<>>
    ELSE <<MessageData(a[1].username, a[1].message, a[1].timestamp, a[1].room)>>
             \o DropExpiresAt(Tail(a))

\* the catch branch of getRecentMessages
RecentFallback(fb, roomId, t) ==
    IF roomId \in DOMAIN fb
    THEN SliceLast(DropExpiresAt(FilterLive(fb[roomId], t)), HALF_MESSAGES)
    ELSE <<>>

\* getRecentMessages(roomId) at time t: lRangeOk tells whether LRANGE answers,
\* failedGets are the keys whose GET throws
GetRecentMessages(st, roomId, lRangeOk, failedGets, t) ==
    IF lRangeOk
    THEN SliceLast(
           Reverse(SortNewestFirst(
             FetchMessages(st.keys, RedisLRange(st.lists, roomId, t), failedGets, t))),
           HALF_MESSAGES)
    ELSE RecentFallback(st.fallback, roomId, t)

\* (mutant) a room with nothing left keeps its key
SweepExpiredKeepsKeys(fb, t) == [r \in DOMAIN fb |-> FilterLive(fb[r], t)]

\* the hourly setInterval of src/server.js, on fallbackStore: expired entries
\* go, and a room with nothing left loses its key
SweepExpired(fb, t) ==
    [r \in {x \in DOMAIN fb : FilterLive(fb[x], t) # <<>>} |-> FilterLive(fb[r], t)]

\* the same setInterval, on mutedUsers: if (unmuteTime <= now) delete
SweepMutes(mu, t) == [id \in {x \in DOMAIN mu : ~(mu[x] <= t)} |-> mu[id]]

----------------------------------------------------------------------------
(* The message store of src/unnamed/part_000: the Map messageStore *)

\* storeMessage(roomId, username, message) at time t: push, keep the last 200
MemStoreMessage(ms, roomId, username, message, t) ==
    LET old == IF roomId \in DOMAIN ms THEN ms[roomId] ELSE <<>>
        entry == [username |-> username, message |-> message, timestamp |-> t,
                  expiresAt |-> t + MESSAGE_TTL]
    IN  MapSet(ms, roomId, KeepLast(Append(old, entry), MAX_MESSAGES))

\* .map(({ username, message, timestamp }) => ({ ..., room: roomId }))
RECURSIVE WithRoom(_, _)
WithRoom(a, roomId) ==
    IF a = <<>> THEN <<>>
    ELSE <<MessageData(a[1].username, a[1].message, a[1].timestamp, roomId)>>
             \o WithRoom(Tail(a), roomId)

\* getRecentMessages(roomId) at time t
MemGetRecentMessages(ms, roomId, t) ==
    IF roomId \notin DOMAIN ms THEN <<>>
    ELSE WithRoom(FilterLive(ms[roomId], t), roomId)

\* cleanupExpiredMessages() at time t
CleanupExpiredMessages(ms, t) ==
    [r \in {x \in DOMAIN ms : FilterLive(ms[x], t) # <<>>} |-> FilterLive(ms[r], t)]

----------------------------------------------------------------------------
(* The state after the module is loaded *)

Init ==
    /\ users = <<>>
    /\ rooms = EmptyMap
    /\ admins = {}
    /\ mutedUsers = EmptyMap
    /\ sockRooms = EmptyMap
    /\ usedIds = {}
    /\ pending = <<>>
    /\ redisKeys = EmptyMap
    /\ redisLists = EmptyMap
    /\ fallbackStore = EmptyMap
    /\ messageStore = EmptyMap
    /\ nextKey = 0
    /\ now = 0
    /\ lastEvent = Event("init", "", NoText, NoText, NoText)
    /\ sent = <<>>
    /\ lastResult = <<>>
    /\ keepAliveEnabled = TRUE
    /\ keepAliveTimer = 0
    /\ armedTimers = {}
    /\ listening = FALSE

----------------------------------------------------------------------------
(* The room/presence registry of src/server.js *)

InvalidRoomId == <<"Invalid room ID. Must be 3 digits (001-100).">>
RoomOutOfRange == <<"Room must be between 001 and 100.">>

\* (mutant) the set is left in the Map when it becomes empty
RoomsRemoveKeepsEmpty(rm, room, id) ==
    IF room \in DOMAIN rm THEN MapSet(rm, room, rm[room] \ {id}) ELSE rm

\* (mutant) the socket is not taken out of the room's set
RoomsRemoveNothing(rm, room, id) == rm

\* the sockets that are connected: only they send events
Connected == DOMAIN sockRooms

\* rooms.get(room).delete(id), and rooms.delete(room) when the set is left empty
RoomsRemove(rm, room, id) ==
    IF room \in DOMAIN rm
    THEN IF rm[room] \ {id} = {} THEN MapDelete(rm, room)
         ELSE MapSet(rm, room, rm[room] \ {id})
    ELSE rm

\* rooms.set(room, new Set()) when the room has no set, then rooms.get(room).add(id)
RoomsAdd(rm, room, id) ==
    MapSet(rm, room, (IF room \in DOMAIN rm THEN rm[room] ELSE {}) \cup {id})

\* user.room = room, in place
UsersSetRoom(us, id, room) ==
    [i \in 1..Len(us) |-> IF us[i].id = id THEN [us[i] EXCEPT !.room = room] ELSE us[i]]

\* user.username = name, in place
UsersSetName(us, id, name) ==
    [i \in 1..Len(us) |-> IF us[i].id = id THEN [us[i] EXCEPT !.username = name] ELSE us[i]]

\* (mutant) the flag on the user object is not set
UsersSetAdminNobody(us, id) == us

\* user.isAdmin = true, in place
UsersSetAdmin(us, id) ==
    [i \in 1..Len(us) |-> IF us[i].id = id THEN [us[i] EXCEPT !.isAdmin = TRUE] ELSE us[i]]

\* a suspended handler holds the user object itself, so it sees a later rename
PendingSetName(q, id, name) ==
    [i \in 1..Len(q) |-> IF q[i].id = id THEN [q[i] EXCEPT !.username = name] ELSE q[i]]

\* recentMessages.forEach(msg => socket.emit("chat message", msg))
EmitHistory(sr, id, msgs) ==
    [i \in 1..Len(msgs) |->
        SocketEmit(sr, id, "chat message",
                   ChatPayload(msgs[i].username, msgs[i].message, msgs[i].room,
                               msgs[i].timestamp, FALSE))]

\* io.on("connection"): a new socket, with an id never used before
Connection(s) ==
    /\ s \notin usedIds
    /\ Len(pending) < MaxPending
    /\ usedIds' = usedIds \cup {s}
    /\ sockRooms' = MapSet(sockRooms, s, {R001})
    /\ rooms' = RoomsAdd(rooms, R001, s)
    /\ users' = Append(users, [id |-> s, username |-> Guest, room |-> R001, isAdmin |-> FALSE])
    /\ pending' = Append(pending, Pending("history", s, R001, Guest, NoText, NoText, 0))
    /\ sent' = <<SocketEmit(sockRooms', s, "room joined", RoomPayload(R001))>>
    /\ lastEvent' = Event("connection", s, NoText, NoText, NoText)
    /\ UNCHANGED <<admins, mutedUsers, storeVars, now>>
    /\ lastResult' = <<>>

\* getRecentMessages('001').then(...): the history of the default room arrives
HistoryResume(i, lRangeOk, failedGets) ==
    /\ i \in 1..Len(pending)
    /\ pending[i].kind = "history"
    /\ LET p == pending[i]
           msgs == GetRecentMessages(Store, p.room, lRangeOk, failedGets, now)
       IN  /\ sent' = EmitHistory(sockRooms, p.id, msgs)
           /\ lastResult' = msgs
           /\ lastEvent' = Event("history", p.id, p.room, NoText, NoText)
    /\ pending' = RemoveAt(pending, i)
    /\ UNCHANGED <<registryVars, storeVars, now>>

\* (mutant) every room number is in range
RoomNumOutOfRangeNever(roomNum) == FALSE

\* if (roomNum < 1 || roomNum > 100)
RoomNumOutOfRange(roomNum) == roomNum < 1 \/ roomNum > 100

\* socket.on("join room"), up to its await
JoinRoom(s, roomId) ==
    LET formattedRoom == PadStart(NumToString(ParseInt(roomId)), 3)
        hasUser == UsersHas(s)
        leaves == hasUser /\ UsersGet(s).room # NoText
        prev == UsersGet(s).room
    IN
    /\ lastEvent' = Event("join room", s, roomId, NoText, NoText)
    /\ IF ~TestThreeDigits(roomId)
       THEN /\ sent' = <<SocketEmit(sockRooms, s, "error", ErrorPayload(InvalidRoomId))>>
            /\ UNCHANGED <<registryVars, pending>>
       ELSE IF RoomNumOutOfRange(ParseInt(roomId))
       THEN /\ sent' = <<SocketEmit(sockRooms, s, "error", ErrorPayload(RoomOutOfRange))>>
            /\ UNCHANGED <<registryVars, pending>>
       ELSE IF hasUser /\ UsersGet(s).room = formattedRoom
       THEN /\ sent' = <<>>
            /\ UNCHANGED <<registryVars, pending>>
       ELSE /\ PendingJoins < MaxPendingJoins
            /\ sockRooms' =
                 IF s \in DOMAIN sockRooms
                 THEN MapSet(sockRooms, s,
                        ((IF leaves THEN sockRooms[s] \ {prev} ELSE sockRooms[s])
                             \cup {formattedRoom}))
                 ELSE sockRooms
            /\ rooms' = RoomsAdd(IF leaves THEN RoomsRemove(rooms, prev, s) ELSE rooms,
                                 formattedRoom, s)
            /\ users' = IF hasUser THEN UsersSetRoom(users, s, formattedRoom)
                        ELSE Append(users, [id |-> s, username |-> Guest,
                                            room |-> formattedRoom, isAdmin |-> FALSE])
            /\ sent' = IF leaves
                       THEN <<SocketEmit(sockRooms, s, "room left", RoomPayload(prev))>>
                       ELSE <<>>
            /\ pending' = Append(pending,
                 Pending("join", s, formattedRoom,
                         IF hasUser THEN UsersGet(s).username ELSE NoText, NoText, NoText, 0))
            /\ UNCHANGED <<admins, mutedUsers, usedIds>>
    /\ UNCHANGED <<storeVars, now>>
    /\ lastResult' = <<>>

\* socket.on("join room"), after await getRecentMessages(formattedRoom)
JoinRoomResume(i, lRangeOk, failedGets) ==
    /\ i \in 1..Len(pending)
    /\ pending[i].kind = "join"
    /\ LET p == pending[i]
           msgs == GetRecentMessages(Store, p.room, lRangeOk, failedGets, now)
       IN  /\ sent' = EmitHistory(sockRooms, p.id, msgs) \o
                  << SocketEmit(sockRooms, p.id, "room joined", RoomPayload(p.room)),
                     OthersEmit(sockRooms, p.id, p.room, "user joined",
                        UserPayload(IF p.username # NoText THEN p.username ELSE Guest,
                                    p.room)) >>
           /\ lastResult' = msgs
           /\ lastEvent' = Event("join room resumed", p.id, p.room, NoText, NoText)
    /\ pending' = RemoveAt(pending, i)
    /\ UNCHANGED <<registryVars, storeVars, now>>

\* socket.on("leave room")
LeaveRoom(s, roomId) ==
    /\ lastEvent' = Event("leave room", s, roomId, NoText, NoText)
    /\ IF UsersHas(s) /\ UsersGet(s).room = roomId
       THEN /\ sockRooms' = IF s \in DOMAIN sockRooms
                            THEN MapSet(sockRooms, s, sockRooms[s] \ {roomId})
                            ELSE sockRooms
            /\ rooms' = RoomsRemove(rooms, roomId, s)
            /\ sent' = <<SocketEmit(sockRooms, s, "room left", RoomPayload(roomId))>>
       ELSE /\ sent' = <<>>
            /\ UNCHANGED <<sockRooms, rooms>>
    /\ UNCHANGED <<users, admins, mutedUsers, usedIds, pending, storeVars, now>>
    /\ lastResult' = <<>>

\* socket.on("update username")
UpdateUsername(s, username) ==
    LET name == IF username # NoText THEN username ELSE Guest
    IN
    /\ lastEvent' = Event("update username", s, NoText, username, NoText)
    /\ IF UsersHas(s)
       THEN /\ users' = UsersSetName(users, s, name)
            /\ pending' = PendingSetName(pending, s, name)
       ELSE UNCHANGED <<users, pending>>
    /\ sent' = <<>>
    /\ UNCHANGED <<rooms, admins, mutedUsers, sockRooms, usedIds, storeVars, now>>
    /\ lastResult' = <<>>

\* (mutant) the handler forgets the privileged set and the mute table
DisconnectHandlerKeepsModeration(s) ==
    /\ sockRooms' = MapDelete(sockRooms, s)
    /\ IF UsersHas(s)
       THEN /\ rooms' = RoomsRemove(rooms, UsersGet(s).room, s)
            /\ users' = UsersDelete(s)
            /\ sent' = <<OthersEmit(sockRooms', s, UsersGet(s).room, "user left",
                            UserPayload(UsersGet(s).username, UsersGet(s).room))>>
       ELSE /\ sent' = <<>>
            /\ UNCHANGED <<rooms, users>>
    /\ UNCHANGED <<usedIds, admins, mutedUsers>>

\* the socket closes (socket.io takes it out of every adapter room), then
\* socket.on("disconnect") runs
DisconnectHandler(s) ==
    /\ sockRooms' = MapDelete(sockRooms, s)
    /\ IF UsersHas(s)
       THEN /\ admins' = admins \ {s}
            /\ mutedUsers' = MapDelete(mutedUsers, s)
            /\ rooms' = RoomsRemove(rooms, UsersGet(s).room, s)
            /\ users' = UsersDelete(s)
            /\ sent' = <<OthersEmit(sockRooms', s, UsersGet(s).room, "user left",
                            UserPayload(UsersGet(s).username, UsersGet(s).room))>>
       ELSE /\ sent' = <<>>
            /\ UNCHANGED <<admins, mutedUsers, rooms, users>>
    /\ UNCHANGED usedIds

\* the client goes away
Disconnect(s) ==
    /\ lastEvent' = Event("disconnect", s, NoText, NoText, NoText)
    /\ DisconnectHandler(s)
    /\ UNCHANGED <<pending, storeVars, now>>
    /\ lastResult' = <<>>

\* Array.from(rooms.keys()).sort()
RECURSIVE SortKeys(_)
SortKeys(S) ==
    IF S = {} THEN <<>>
    ELSE LET m == CHOOSE x \in S : \A y \in S \ {x} : StrLess(x, y)
         IN  <<m>> \o SortKeys(S \ {m})

\* (mutant) every room is listed with one user
RoomListCountsOne(rm) ==
    LET keys == SortKeys(DOMAIN rm)
    IN  [i \in 1..Len(keys) |-> [id |-> keys[i], userCount |-> 1]]

\* .map(room => ({ id: room, userCount: rooms.get(room).size }))
RoomList(rm) ==
    LET keys == SortKeys(DOMAIN rm)
    IN  [i \in 1..Len(keys) |-> [id |-> keys[i], userCount |-> Cardinality(rm[keys[i]])]]

\* socket.on("get rooms")
GetRooms(s) ==
    /\ lastEvent' = Event("get rooms", s, NoText, NoText, NoText)
    /\ sent' = <<SocketEmit(sockRooms, s, "rooms list", ListPayload(RoomList(rooms)))>>
    /\ UNCHANGED <<registryVars, pending, storeVars, now>>
    /\ lastResult' = <<>>

----------------------------------------------------------------------------
(* The command interpreter of src/server.js: socket.on("chat message") *)

ServerPrefix == <<"s", "e", "r", "v", "e", "r", "!">>
LoginPrefix == <<"s", "e", "r", "v", "e", "r", "!", "a", "d", "m", "i", "n", "!", "l", "o", "g", "i", "n", "#">>
CmdClear == <<"c", "l", "e", "a", "r">>
CmdMute == <<"m", "u", "t", "e", " ">>
CmdKick == <<"k", "i", "c", "k", " ">>
CmdBan == <<"b", "a", "n", " ">>
CmdList == <<"l", "i", "s", "t">>
CmdHelp == <<"h", "e", "l", "p">>

\* ADMIN_CREDENTIALS: username -> password
ADMIN_CREDENTIALS ==
    (<<"a", "d", "m", "i", "n", "1">> :> <<"a", "d", "m", "i", "n", "1", "2", "3">>) @@
    (<<"m", "o", "d", "e", "r", "a", "t", "o", "r">> :> <<"m", "o", "d", "1", "2", "3">>) @@
    (<<"s", "u", "p", "e", "r", "a", "d", "m", "i", "n">> :> <<"s", "u", "p", "e", "r", "1", "2", "3">>)

\* mute: Date.now() + 5 * 60 * 1000, in minutes
MUTE_MINUTES == 5

\* ban: Date.now() + 24 * 60 * 60 * 1000, in minutes
BAN_MINUTES == 1440

LoginOkNotice == <<"Admin login successful! You now have moderator privileges.">>
LoginFailedNotice == <<"Invalid admin credentials.">>
NoPermissionNotice == <<"You don't have permission to use admin commands.">>
AdminRequiredNotice == <<"Admin privileges required.">>
HelpNotice == <<"Admin Commands: ...">>
MutedNotice(seconds) ==
    <<"You are muted for ">> \o NumToString(seconds) \o <<" more seconds.">>
ClearedNotice(admin) == <<"Chat cleared by admin ">> \o admin \o <<".">>
YouAreMutedNotice(admin) ==
    <<"You have been muted by admin ">> \o admin \o <<" for 5 minutes.">>
MutedUserNotice(target) == <<"Muted user ">> \o target \o <<" for 5 minutes.">>
YouAreKickedNotice(admin) == <<"You have been kicked by admin ">> \o admin \o <<".">>
KickedUserNotice(target) == <<"Kicked user ">> \o target \o <<".">>
YouAreBannedNotice(admin) ==
    <<"You have been banned by admin ">> \o admin \o <<" for 24 hours.">>
BannedUserNotice(target) == <<"Banned user ">> \o target \o <<" for 24 hours.">>
NotFoundNotice(target) == <<"User ">> \o target \o <<" not found.">>
UnknownCommandNotice(command) ==
    <<"Unknown admin command: ">> \o command \o <<". Type \"server!help\" for available commands.">>
ListNotice(room, names) == <<"Users in room ">> \o room \o <<": ">> \o names

System == <<"System">>

\* a notice from "System" to one socket
SystemNotice(sr, id, text, room, t) ==
    SocketEmit(sr, id, "chat message", ChatPayload(System, text, room, t, TRUE))

\* (mutant) a mute lasts as long as its entry is in the table
IsUserMutedWhileEntry(mu, id, t) == IF id \in DOMAIN mu THEN mu[id] ELSE 0

\* a mute check that never finds a mute
IsUserMutedNever(mu, id, t) == 0

\* isUserMuted(socketId): the unmute time while it lies ahead, else false (0 here)
IsUserMuted(mu, id, t) == IF id \in DOMAIN mu /\ mu[id] > t THEN mu[id] ELSE 0

\* isUserMuted drops an entry whose time has come
MutedAfterCheck(mu, id, t) ==
    IF id \in DOMAIN mu /\ ~(mu[id] > t) THEN MapDelete(mu, id) ELSE mu

\* (mutant) the last entry with that name
GetUserByUsernameLast(us, username) ==
    IF \E i \in 1..Len(us) : us[i].username = username
    THEN CHOOSE i \in 1..Len(us) :
            /\ us[i].username = username
            /\ \A j \in (i + 1)..Len(us) : us[j].username # username
    ELSE 0

\* getUserByUsername(username): the first entry, in the Map's order, with that
\* name; 0 stands for null
GetUserByUsername(us, username) ==
    IF \E i \in 1..Len(us) : us[i].username = username
    THEN CHOOSE i \in 1..Len(us) :
            /\ us[i].username = username
            /\ \A j \in 1..(i - 1) : us[j].username # username
    ELSE 0

\* (mutant) the login branch is taken whatever the count of parts
IsLoginAttemptAnyCount(message) == StartsWith(message, LoginPrefix)

\* the login branch is taken when the text splits on "#" in exactly two parts
IsLoginAttempt(message) ==
    StartsWith(message, LoginPrefix) /\ Len(Split(message, "#")) = 2

\* (mutant) every login attempt succeeds
LoginSucceedsAlways(message) == TRUE

\* const [username, password] = parts[1].split(":"), then the lookup
LoginSucceeds(message) ==
    LET fields == Split(Split(message, "#")[2], ":")
    IN  /\ Len(fields) >= 2
        /\ fields[1] # NoText
        /\ fields[2] # NoText
        /\ fields[1] \in DOMAIN ADMIN_CREDENTIALS
        /\ ADMIN_CREDENTIALS[fields[1]] = fields[2]

\* Array.from(rooms.get(room) || []).map(...).filter(Boolean).join(', ')
RECURSIVE JoinNames(_, _)
JoinNames(us, members) ==
    IF us = <<>> THEN <<>>
    ELSE IF us[1].id \in members
         THEN <<us[1].username \o (IF us[1].isAdmin THEN <<" (Admin)">> ELSE <<>>)>>
                  \o JoinNames(Tail(us), members)
         ELSE JoinNames(Tail(us), members)

\* a privilege check that lets every socket through
IsPrivilegedAnyone(s) == TRUE

\* const isAdmin = admins.has(socket.id)
IsPrivileged(s) == s \in admins

\* handleAdminCommand(socket, message, room)
HandleAdminCommand(s, message, room) ==
    LET command == Substring(message, 7)
        admin == UsersGet(s).username
        targetName == IF StartsWith(command, CmdBan) THEN Substring(command, 4)
                      ELSE Substring(command, 5)
        found == GetUserByUsername(users, targetName)
        target == users[found]
        notFound == <<SystemNotice(sockRooms, s, NotFoundNotice(targetName), room, now)>>
    IN
    IF ~IsPrivileged(s)
    THEN /\ sent' = <<SystemNotice(sockRooms, s, AdminRequiredNotice, room, now)>>
         /\ UNCHANGED <<registryVars, pending>>
    ELSE IF command = CmdClear
    THEN /\ Len(pending) < MaxPending
         /\ pending' = Append(pending, Pending("clear", s, room, admin, NoText, NoText, 0))
         /\ sent' = <<>>
         /\ UNCHANGED <<registryVars>>
    ELSE IF StartsWith(command, CmdMute)
    THEN /\ IF found # 0
            THEN /\ mutedUsers' = MapSet(mutedUsers, target.id, now + MUTE_MINUTES)
                 /\ sent' = << ToSocketEmit(sockRooms, target.id, "chat message",
                                  ChatPayload(System, YouAreMutedNotice(admin),
                                              target.room, now, TRUE)),
                               SystemNotice(sockRooms, s, MutedUserNotice(targetName), room, now) >>
            ELSE /\ sent' = notFound
                 /\ UNCHANGED mutedUsers
         /\ UNCHANGED <<users, rooms, admins, sockRooms, usedIds, pending>>
    ELSE IF StartsWith(command, CmdKick)
    THEN /\ IF found # 0
            THEN /\ Len(pending) < MaxPending
                 /\ pending' = Append(pending,
                        Pending("kick", target.id, NoText, NoText, NoText, NoText, 0))
                 /\ sent' = << ToSocketEmit(sockRooms, target.id, "chat message",
                                  ChatPayload(System, YouAreKickedNotice(admin),
                                              target.room, now, TRUE)),
                               SystemNotice(sockRooms, s, KickedUserNotice(targetName), room, now) >>
            ELSE /\ sent' = notFound
                 /\ UNCHANGED pending
         /\ UNCHANGED <<registryVars>>
    ELSE IF StartsWith(command, CmdBan)
    THEN /\ IF found # 0
            THEN /\ Len(pending) < MaxPending
                 /\ mutedUsers' = MapSet(mutedUsers, target.id, now + BAN_MINUTES)
                 /\ pending' = Append(pending,
                        Pending("kick", target.id, NoText, NoText, NoText, NoText, 0))
                 /\ sent' = << ToSocketEmit(sockRooms, target.id, "chat message",
                                  ChatPayload(System, YouAreBannedNotice(admin),
                                              target.room, now, TRUE)),
                               SystemNotice(sockRooms, s, BannedUserNotice(targetName), room, now) >>
            ELSE /\ sent' = notFound
                 /\ UNCHANGED <<mutedUsers, pending>>
         /\ UNCHANGED <<users, rooms, admins, sockRooms, usedIds>>
    ELSE /\ sent' = << SystemNotice(sockRooms, s,
                          IF command = CmdList
                          THEN ListNotice(room,
                                 JoinNames(users, IF room \in DOMAIN rooms THEN rooms[room] ELSE {}))
                          ELSE IF command = CmdHelp THEN HelpNotice
                          ELSE UnknownCommandNotice(command),
                          room, now) >>
         /\ UNCHANGED <<registryVars, pending>>

\* socket.on("chat message"), up to its first await.  data is
\* {room, username, message}; a message that is stored takes its timestamp
\* and its messageKey here and waits for Redis.
ChatMessage(s, data) ==
    LET user == UsersGet(s)
        room == IF data.room # NoText THEN data.room ELSE user.room
        message == data.message
        author == IF data.username # NoText THEN data.username ELSE user.username
        muteStatus == IsUserMuted(mutedUsers, s, now)
    IN
    /\ lastEvent' = Event("chat message", s, data.room, data.username, data.message)
    /\ IF ~UsersHas(s)
       THEN /\ sent' = <<>>
            /\ UNCHANGED <<registryVars, pending, storeVars>>
            /\ lastResult' = <<>>
       ELSE IF IsLoginAttempt(message)
       THEN /\ IF LoginSucceeds(message)
               THEN /\ users' = UsersSetAdmin(users, s)
                    /\ admins' = admins \cup {s}
                    /\ sent' = <<SystemNotice(sockRooms, s, LoginOkNotice, room, now)>>
               ELSE /\ sent' = <<SystemNotice(sockRooms, s, LoginFailedNotice, room, now)>>
                    /\ UNCHANGED <<users, admins>>
            /\ UNCHANGED <<rooms, mutedUsers, sockRooms, usedIds, pending, storeVars>>
            /\ lastResult' = <<>>
       ELSE IF StartsWith(message, ServerPrefix)
       THEN /\ IF ~IsPrivileged(s)
               THEN /\ sent' = <<SystemNotice(sockRooms, s, NoPermissionNotice, room, now)>>
                    /\ UNCHANGED <<registryVars, pending>>
               ELSE HandleAdminCommand(s, message, room)
            /\ UNCHANGED <<storeVars>>
            /\ lastResult' = <<>>
       ELSE IF muteStatus # 0
       THEN /\ sent' = <<SystemNotice(sockRooms, s,
                           MutedNotice((muteStatus - now) * 60), room, now)>>
            /\ UNCHANGED <<registryVars, pending, storeVars>>
            /\ lastResult' = <<>>
       ELSE /\ Len(pending) < MaxPending
            /\ mutedUsers' = MutedAfterCheck(mutedUsers, s, now)
            /\ nextKey' = nextKey + 1
            /\ pending' = Append(pending,
                   [Pending("chat", s, room, user.username, data.username, message, now)
                       EXCEPT !.author = author, !.key = nextKey + 1])
            /\ sent' = <<>>
            /\ lastResult' = <<>>
            /\ UNCHANGED <<users, rooms, admins, sockRooms, usedIds,
                           redisKeys, redisLists, fallbackStore, messageStore>>
    /\ UNCHANGED now

\* storeMessage's next Redis call answers (ok) or throws.  After the last
\* call, and after the catch branch, storeMessage returns and the handler of
\* "chat message" goes on: it renames the user and broadcasts to the room
StoreStep(i, ok) ==
    /\ i \in 1..Len(pending)
    /\ pending[i].kind = "chat"
    /\ LET p == pending[i]
           data == MessageData(p.author, p.message, p.timestamp, p.room)
           returns == ~ok \/ p.step + 1 = Len(StoreCalls)
           st == IF ok THEN StoreCallApply(Store, StoreCalls[p.step + 1], p.room, p.key, data, now)
                 ELSE StoreCatch(Store, p.room, data, now)
           renamed == p.dataUsername # NoText
           name == IF renamed THEN p.dataUsername ELSE p.username
       IN  /\ redisKeys' = st.keys
           /\ redisLists' = st.lists
           /\ fallbackStore' = st.fallback
           /\ IF returns
              THEN /\ users' = IF renamed /\ UsersHas(p.id)
                               THEN UsersSetName(users, p.id, p.dataUsername) ELSE users
                   /\ pending' = IF renamed
                                 THEN PendingSetName(RemoveAt(pending, i), p.id, p.dataUsername)
                                 ELSE RemoveAt(pending, i)
                   /\ sent' = <<RoomEmit(sockRooms, p.room, "chat message",
                                   ChatPayload(name, p.message, p.room, p.timestamp, FALSE))>>
                   /\ lastResult' = <<data>>
                   /\ lastEvent' = Event("chat message resumed", p.id, p.room,
                                         p.dataUsername, p.message)
              ELSE /\ pending' = [pending EXCEPT ![i].step = @ + 1]
                   /\ sent' = <<>>
                   /\ lastResult' = <<>>
                   /\ lastEvent' = Event("store call", p.id, p.room, p.dataUsername, p.message)
                   /\ UNCHANGED users
    /\ UNCHANGED <<rooms, admins, mutedUsers, sockRooms, usedIds, messageStore, nextKey, now>>

\* DEL key...: the keys are gone
RedisDel(m, ks) == [k \in (DOMAIN m) \ ks |-> m[k]]

\* clearRoomMessages(roomId): okCalls of its three Redis calls (LRANGE, DEL of
\* the message keys, DEL of the list) succeed; an error is logged and
\* swallowed; the fallback entry is deleted in every case
ClearRoomMessages(st, roomId, okCalls, t) ==
    LET items == RedisLRange(st.lists, roomId, t)
        messageKeys == {items[i] : i \in 1..Len(items)}
    IN  [keys |-> IF okCalls >= 2 THEN RedisDel(st.keys, messageKeys) ELSE st.keys,
         lists |-> IF okCalls >= 3 THEN RedisDel(st.lists, {roomId}) ELSE st.lists,
         fallback |-> RedisDel(st.fallback, {roomId}),
         n |-> st.n]

\* handleAdminCommand "clear", after await clearRoomMessages(room)
ClearResume(i, okCalls) ==
    /\ i \in 1..Len(pending)
    /\ pending[i].kind = "clear"
    /\ LET p == pending[i]
           cleared == ClearRoomMessages(Store, p.room, okCalls, now)
       IN  /\ redisKeys' = cleared.keys
           /\ redisLists' = cleared.lists
           /\ fallbackStore' = cleared.fallback
           /\ sent' = <<RoomEmit(sockRooms, p.room, "chat message",
                           ChatPayload(System, ClearedNotice(p.username), p.room, now, TRUE))>>
           /\ lastEvent' = Event("clear resumed", p.id, p.room, NoText, NoText)
    /\ pending' = RemoveAt(pending, i)
    /\ UNCHANGED <<registryVars, messageStore, nextKey, now>>
    /\ lastResult' = <<>>

\* a timeout that fires and leaves the socket connected
KickTimeoutKeepsSocket(i) ==
    /\ i \in 1..Len(pending)
    /\ pending[i].kind = "kick"
    /\ lastEvent' = Event("kick timeout", pending[i].id, NoText, NoText, NoText)
    /\ sent' = <<>>
    /\ pending' = RemoveAt(pending, i)
    /\ lastResult' = <<>>
    /\ UNCHANGED <<registryVars, storeVars, now>>

\* the setTimeout of kick and ban fires:
\* if (users.has(id)) io.sockets.sockets.get(id)?.disconnect(true)
KickTimeout(i) ==
    /\ i \in 1..Len(pending)
    /\ pending[i].kind = "kick"
    /\ LET id == pending[i].id
       IN  /\ lastEvent' = Event("kick timeout", id, NoText, NoText, NoText)
           /\ IF UsersHas(id) /\ id \in Connected
              THEN DisconnectHandler(id)
              ELSE /\ sent' = <<>>
                   /\ UNCHANGED registryVars
    /\ pending' = RemoveAt(pending, i)
    /\ UNCHANGED <<storeVars, now>>
    /\ lastResult' = <<>>

\* the keys a GET may be asked for when a room's history is read
ListKeys(room) == {redisLists[room].items[i] : i \in 1..Len(redisLists[room].items)}
GetFailures(room) == IF room \in DOMAIN redisLists THEN SUBSET ListKeys(room) ELSE {{}}

RegistryStep ==
    /\ UNCHANGED powerVars
    /\ \/ \E s \in RegistrySockets : Connection(s)
       \/ \E s \in Connected, roomId \in RoomInputs : JoinRoom(s, roomId)
       \/ \E s \in Connected, roomId \in RoomInputs : LeaveRoom(s, roomId)
       \/ \E s \in Connected, username \in NameInputs : UpdateUsername(s, username)
       \/ \E s \in Connected : Disconnect(s)
       \/ \E s \in Connected : GetRooms(s)
       \/ \E i \in 1..Len(pending), ok \in BOOLEAN :
            \E f \in GetFailures(pending[i].room) : HistoryResume(i, ok, f)
       \/ \E i \in 1..Len(pending), ok \in BOOLEAN :
            \E f \in GetFailures(pending[i].room) : JoinRoomResume(i, ok, f)

\* the clock advances; a kick timeout (one second) fires before a minute passes
Tick(d) ==
    /\ d > 0
    /\ \A i \in 1..Len(pending) : pending[i].kind # "kick"
    /\ now' = now + d
    /\ lastEvent' = Event("tick", "", NoText, NoText, NoText)
    /\ sent' = <<>>
    /\ UNCHANGED <<registryVars, pending, storeVars>>
    /\ lastResult' = <<>>

\* what the clients send while the interpreter is explored
Hi == <<"h", "i">>
MsgLoginOk == LoginPrefix \o <<"a", "d", "m", "i", "n", "1", ":", "a", "d", "m", "i", "n", "1", "2", "3">>
MsgLoginBad == LoginPrefix \o <<"a", "d", "m", "i", "n", "1", ":", "n", "o", "p", "e">>
MsgMuteBob == ServerPrefix \o CmdMute \o Bob
MsgKickBob == ServerPrefix \o CmdKick \o Bob
MsgBanBob == ServerPrefix \o CmdBan \o Bob
MsgClear == ServerPrefix \o CmdClear

ChatSockets == {"s1", "s2"}

\* socket.id is an opaque fresh string: which unused id a connection gets
\* makes no difference, so the ids are handed out in a fixed order
FreshSockets(pool) ==
    IF pool \subseteq usedIds THEN {} ELSE {CHOOSE s \in pool \ usedIds : TRUE}

\* the chat message is one that goes to storeMessage
IsStored(s, data) ==
    /\ UsersHas(s)
    /\ ~StartsWith(data.message, ServerPrefix)
    /\ IsUserMuted(mutedUsers, s, now) = 0

\* what the clients send while the interpreter is explored: chat, logins,
\* mute and clear from anyone, kick and ban from sockets without privilege
ChatTexts == {Hi, MsgLoginOk, MsgLoginBad, MsgMuteBob, MsgClear}
ChatData ==
    [room : {NoText}, username : {NoText}, message : ChatTexts] \cup
    [room : {R100}, username : {Bob}, message : {Hi}]
DeniedData == [room : {NoText}, username : {NoText}, message : {MsgKickBob, MsgBanBob}]

ChatStep ==
    /\ UNCHANGED powerVars
    /\ \/ \E s \in FreshSockets(ChatSockets) : Connection(s)
       \/ \E s \in Connected : UpdateUsername(s, Bob)
       \/ \E s \in Connected : Disconnect(s)
       \/ \E s \in Connected, data \in ChatData :
            (IsStored(s, data) => nextKey < MaxChatStored) /\ ChatMessage(s, data)
       \/ \E s \in Connected \ admins, data \in DeniedData : ChatMessage(s, data)
       \/ \E i \in 1..Len(pending), ok \in BOOLEAN : StoreStep(i, ok)
       \/ \E i \in 1..Len(pending), okCalls \in 0..3 : ClearResume(i, okCalls)
       \/ \E i \in 1..Len(pending), ok \in BOOLEAN :
            \E f \in GetFailures(pending[i].room) : HistoryResume(i, ok, f)
       \/ now + MUTE_MINUTES <= MaxTime /\ Tick(MUTE_MINUTES)

SpecChat == Init /\ [][ChatStep]_vars

\* what the clients send while kick and ban are explored
ModTexts == {MsgLoginOk, MsgMuteBob, MsgKickBob, MsgBanBob}
ModData == [room : {NoText}, username : {NoText}, message : ModTexts]

ModStep ==
    /\ UNCHANGED powerVars
    /\ \/ \E s \in FreshSockets(ChatSockets) : Connection(s)
       \/ \E s \in Connected : UpdateUsername(s, Bob)
       \/ \E s \in Connected : Disconnect(s)
       \/ \E s \in Connected, data \in ModData : ChatMessage(s, data)
       \/ \E i \in 1..Len(pending) : KickTimeout(i)
       \/ \E i \in 1..Len(pending), ok \in BOOLEAN :
            \E f \in GetFailures(pending[i].room) : HistoryResume(i, ok, f)
       \/ now + MUTE_MINUTES <= MaxTime /\ Tick(MUTE_MINUTES)

\* a timeout that is armed fires
SpecMod ==
    /\ Init /\ [][ModStep]_vars
    /\ WF_vars(UNCHANGED powerVars /\ \E i \in 1..Len(pending) : KickTimeout(i))

\* what the clients send while the life of a session is explored
SessionTexts == {MsgLoginOk, MsgLoginBad, MsgMuteBob, MsgKickBob}
SessionData == [room : {NoText}, username : {NoText}, message : SessionTexts]

\* sessions come, log in, are renamed, muted and kicked, change rooms and go
SessionStep ==
    /\ UNCHANGED powerVars
    /\ \/ \E s \in FreshSockets(ChatSockets) : Connection(s)
       \/ \E s \in Connected : JoinRoom(s, R100)
       \/ \E s \in Connected, roomId \in {R001, R100} : LeaveRoom(s, roomId)
       \/ \E s \in Connected : UpdateUsername(s, Bob)
       \/ \E s \in Connected : Disconnect(s)
       \/ \E s \in Connected, data \in SessionData : ChatMessage(s, data)
       \/ \E i \in 1..Len(pending) : KickTimeout(i)
       \/ \E i \in 1..Len(pending), ok \in BOOLEAN :
            \E f \in GetFailures(pending[i].room) : HistoryResume(i, ok, f)
       \/ \E i \in 1..Len(pending), ok \in BOOLEAN :
            \E f \in GetFailures(pending[i].room) : JoinRoomResume(i, ok, f)

SpecSession == Init /\ [][SessionStep]_vars

\* logins: right, right with a third field after the password, wrong, and
\* with one '#' too many
MsgLoginExtra == MsgLoginOk \o <<":", "x">>
MsgLoginMalformed == MsgLoginOk \o <<"#", "x">>
LoginTexts == {Hi, MsgLoginOk, MsgLoginExtra, MsgLoginBad, MsgLoginMalformed}
LoginData == [room : {NoText}, username : {NoText}, message : LoginTexts]

\* sessions come and go, chat and try to log in
LoginStep ==
    /\ UNCHANGED powerVars
    /\ \/ \E s \in FreshSockets(ChatSockets) : Connection(s)
       \/ \E s \in Connected : Disconnect(s)
       \/ \E s \in Connected, data \in LoginData :
            (IsStored(s, data) => nextKey < MaxChatStored) /\ ChatMessage(s, data)
       \/ \E i \in 1..Len(pending), ok \in BOOLEAN : StoreStep(i, ok)
       \/ \E i \in 1..Len(pending), ok \in BOOLEAN :
            \E f \in GetFailures(pending[i].room) : HistoryResume(i, ok, f)

SpecLogin == Init /\ [][LoginStep]_vars

\* every kind of text with the reserved prefix, and a plain one
MsgList == ServerPrefix \o CmdList
MsgHelp == ServerPrefix \o CmdHelp
MsgUnknown == ServerPrefix \o <<"f", "o", "o">>
CommandTexts == {MsgLoginOk, MsgLoginMalformed, MsgClear, MsgMuteBob, MsgKickBob, MsgBanBob,
                 MsgList, MsgHelp, MsgUnknown}
CommandData == [room : {NoText}, username : {NoText}, message : CommandTexts \cup {Hi}]

\* sessions send every kind of command, privileged or not
CommandStep ==
    /\ UNCHANGED powerVars
    /\ \/ \E s \in FreshSockets(ChatSockets) : Connection(s)
       \/ \E s \in Connected : UpdateUsername(s, Bob)
       \/ \E s \in Connected, data \in CommandData :
            (IsStored(s, data) => nextKey < MaxChatStored) /\ ChatMessage(s, data)
       \/ \E i \in 1..Len(pending), ok \in BOOLEAN : StoreStep(i, ok)
       \/ \E i \in 1..Len(pending), okCalls \in 0..3 : ClearResume(i, okCalls)
       \/ \E i \in 1..Len(pending) : KickTimeout(i)
       \/ \E i \in 1..Len(pending), ok \in BOOLEAN :
            \E f \in GetFailures(pending[i].room) : HistoryResume(i, ok, f)

SpecCommand == Init /\ [][CommandStep]_vars

\* what the clients send while sessions are muted by name: the name in two
\* letter cases
BobCaps == <<"B", "o", "b">>
MsgMuteBobCaps == ServerPrefix \o CmdMute \o BobCaps
MuteSockets == {"s1", "s2", "s3"}
MuteTexts == {MsgLoginOk, MsgMuteBob, MsgMuteBobCaps}
MuteData == [room : {NoText}, username : {NoText}, message : MuteTexts]

\* sessions come and go and take the name, one logs in and mutes, the clock
\* moves
MuteStep ==
    /\ UNCHANGED powerVars
    /\ \/ \E s \in FreshSockets(MuteSockets) : Connection(s)
       \/ \E s \in Connected, name \in {Bob, BobCaps} : UpdateUsername(s, name)
       \/ \E s \in Connected : Disconnect(s)
       \/ \E s \in Connected, data \in MuteData : ChatMessage(s, data)
       \/ \E i \in 1..Len(pending), ok \in BOOLEAN :
            \E f \in GetFailures(pending[i].room) : HistoryResume(i, ok, f)
       \/ now + MUTE_MINUTES <= MaxTime /\ Tick(MUTE_MINUTES)

SpecMute == Init /\ [][MuteStep]_vars

\* the sockets that have disconnected: their entries are gone
Departed == usedIds \ DOMAIN sockRooms

LateData == [room : {NoText}, username : {NoText}, message : {Hi}]

\* the handlers test for a missing entry (if (!user) return, if (user && ...),
\* user?.username): here events still arrive for a socket whose entry the
\* disconnect handler has deleted, next to those of connected sockets
LateStep ==
    /\ UNCHANGED powerVars
    /\ \/ \E s \in FreshSockets(RegistrySockets) : Connection(s)
       \/ \E s \in Connected : Disconnect(s)
       \/ \E s \in Connected \cup Departed : JoinRoom(s, R100)
       \/ \E s \in Connected \cup Departed : LeaveRoom(s, R001)
       \/ \E s \in Connected \cup Departed : UpdateUsername(s, Bob)
       \/ \E s \in Departed : Disconnect(s)
       \/ \E s \in Departed, data \in LateData : ChatMessage(s, data)
       \/ \E i \in 1..Len(pending), ok \in BOOLEAN :
            \E f \in GetFailures(pending[i].room) : HistoryResume(i, ok, f)
       \/ \E i \in 1..Len(pending), ok \in BOOLEAN :
            \E f \in GetFailures(pending[i].room) : JoinRoomResume(i, ok, f)

SpecLate == Init /\ [][LateStep]_vars

----------------------------------------------------------------------------
(* The message stores on their own *)

\* getRecentMessages(roomId) of src/server.js is called and answers
Recent(roomId, lRangeOk, failedGets) ==
    /\ lastResult' = GetRecentMessages(Store, roomId, lRangeOk, failedGets, now)
    /\ lastEvent' = Event("getRecentMessages", "", roomId, NoText, NoText)
    /\ sent' = <<>>
    /\ UNCHANGED <<registryVars, pending, storeVars, now>>

\* the hourly setInterval of src/server.js fires
Sweep ==
    /\ fallbackStore' = SweepExpired(fallbackStore, now)
    /\ mutedUsers' = SweepMutes(mutedUsers, now)
    /\ lastEvent' = Event("sweep", "", NoText, NoText, NoText)
    /\ sent' = <<>>
    /\ lastResult' = <<>>
    /\ UNCHANGED <<users, rooms, admins, sockRooms, usedIds, pending,
                   redisKeys, redisLists, messageStore, nextKey, now>>

\* storeMessage(roomId, username, message) of part_000 is called
MemAppend(roomId, username, message) ==
    /\ messageStore' = MemStoreMessage(messageStore, roomId, username, message, now)
    /\ lastEvent' = Event("storeMessage in part_000", "", roomId, username, message)
    /\ sent' = <<>>
    /\ lastResult' = <<>>
    /\ UNCHANGED <<registryVars, pending, redisKeys, redisLists, fallbackStore, nextKey, now>>

\* getRecentMessages(roomId) of part_000 is called
MemRecent(roomId) ==
    /\ lastResult' = MemGetRecentMessages(messageStore, roomId, now)
    /\ lastEvent' = Event("getRecentMessages in part_000", "", roomId, NoText, NoText)
    /\ sent' = <<>>
    /\ UNCHANGED <<registryVars, pending, storeVars, now>>

\* the hourly setInterval of part_000 fires
MemCleanup ==
    /\ messageStore' = CleanupExpiredMessages(messageStore, now)
    /\ lastEvent' = Event("cleanupExpiredMessages", "", NoText, NoText, NoText)
    /\ sent' = <<>>
    /\ lastResult' = <<>>
    /\ UNCHANGED <<registryVars, pending, redisKeys, redisLists, fallbackStore, nextKey, now>>

StoreSockets == {"s1"}
StoreData == [room : {NoText}, username : {NoText}, message : {Hi}]

\* the most messages sent to a room of src/server.js
MaxAppends == 5

\* the longest the clock moves while a Redis call waits for its answer, in
\* minutes
Latency == 2

\* the instants at which the clock is read
StoreInstants == {0, Latency, MESSAGE_TTL, MESSAGE_TTL + 1}

\* at most this many GETs of one read throw
MaxGetFailures == 1
FewGetFailures(room) == {f \in GetFailures(room) : Cardinality(f) <= MaxGetFailures}

\* a run is of one program: src/server.js moves while part_000's Map is
\* untouched, part_000 while nothing has connected to src/server.js.
\* Here the logs fill up and the clock stands still.
StoreNext ==
    /\ UNCHANGED powerVars
    /\ \/ messageStore = EmptyMap /\ \E s \in FreshSockets(StoreSockets) : Connection(s)
       \/ \E i \in 1..Len(pending), ok \in BOOLEAN :
            \E f \in FewGetFailures(pending[i].room) : HistoryResume(i, ok, f)
       \/ \E s \in Connected, data \in StoreData :
            nextKey < MaxAppends /\ ChatMessage(s, data)
       \/ \E i \in 1..Len(pending), ok \in BOOLEAN : StoreStep(i, ok)
       \/ \E ok \in BOOLEAN : \E f \in FewGetFailures(R001) :
            Connected # {} /\ Recent(R001, ok, f)
       \/ usedIds = {} /\ MemAppend(R001, Guest, Hi)
       \/ usedIds = {} /\ messageStore # EmptyMap /\ MemRecent(R001)

SpecStore == Init /\ [][StoreNext]_vars

\* The reply to the Redis call that storeMessage awaits never arrives: the
\* promise stays pending, and the code arms no timer beside it, so nothing
\* resumes the handler
RedisNeverAnswers(i) ==
    /\ i \in 1..Len(pending)
    /\ pending[i].kind = "chat"
    /\ pending' = [pending EXCEPT ![i].kind = "unanswered"]
    /\ lastEvent' = Event("no reply", pending[i].id, pending[i].room,
                          pending[i].dataUsername, pending[i].message)
    /\ sent' = <<>>
    /\ lastResult' = <<>>
    /\ UNCHANGED <<registryVars, storeVars, now>>

\* here Redis answers, throws or stays silent
UnansweredNext ==
    /\ UNCHANGED powerVars
    /\ \/ \E s \in FreshSockets(StoreSockets) : Connection(s)
       \/ \E i \in 1..Len(pending), ok \in BOOLEAN :
            \E f \in FewGetFailures(pending[i].room) : HistoryResume(i, ok, f)
       \/ \E s \in Connected, data \in StoreData :
            nextKey < MaxAppends /\ ChatMessage(s, data)
       \/ \E i \in 1..Len(pending), ok \in BOOLEAN : StoreStep(i, ok)
       \/ \E i \in 1..Len(pending) : RedisNeverAnswers(i)

\* a handler whose Redis call has been answered, with a reply or an error, is
\* resumed by the event loop
SpecUnanswered ==
    /\ Init /\ [][UnansweredNext]_vars
    /\ WF_vars(UNCHANGED powerVars
                 /\ \E i \in 1..Len(pending), ok \in BOOLEAN : StoreStep(i, ok))

\* here the clock moves and few messages are sent
ExpiryNext ==
    /\ UNCHANGED powerVars
    /\ \/ messageStore = EmptyMap /\ \E s \in FreshSockets(StoreSockets) : Connection(s)
       \/ \E i \in 1..Len(pending), ok \in BOOLEAN :
            \E f \in FewGetFailures(pending[i].room) : HistoryResume(i, ok, f)
       \/ \E s \in Connected, data \in StoreData :
            nextKey < MaxChatStored /\ ChatMessage(s, data)
       \/ \E i \in 1..Len(pending), ok \in BOOLEAN : StoreStep(i, ok)
       \/ \E ok \in BOOLEAN : \E f \in FewGetFailures(R001) :
            Connected # {} /\ Recent(R001, ok, f)
       \/ Connected # {} /\ Sweep
       \/ usedIds = {} /\ MemAppend(R001, Guest, Hi)
       \/ usedIds = {} /\ messageStore # EmptyMap /\ MemRecent(R001)
       \/ usedIds = {} /\ messageStore # EmptyMap /\ MemCleanup
       \/ \E t \in StoreInstants :
            /\ t > now
            /\ pending # <<>> => t - now <= Latency
            /\ Tick(t - now)

SpecExpiry == Init /\ [][ExpiryNext]_vars

\* what the clients send while the replay of the history is watched
ReplayData == [room : {NoText}, username : {NoText}, message : {Hi}]

\* sessions come, speak and move to room "100", each at most once, while the
\* reads of the history and the calls of storeMessage wait for Redis
ReplayStep ==
    /\ UNCHANGED powerVars
    /\ \/ \E s \in FreshSockets(ChatSockets) : Connection(s)
       \/ \E s \in Connected : JoinRoom(s, R100)
       \/ \E s \in Connected, data \in ReplayData :
            nextKey < MaxChatStored /\ ChatMessage(s, data)
       \/ \E i \in 1..Len(pending), ok \in BOOLEAN : StoreStep(i, ok)
       \/ \E i \in 1..Len(pending), ok \in BOOLEAN :
            \E f \in FewGetFailures(pending[i].room) : HistoryResume(i, ok, f)
       \/ \E i \in 1..Len(pending), ok \in BOOLEAN :
            \E f \in FewGetFailures(pending[i].room) : JoinRoomResume(i, ok, f)

SpecReplay == Init /\ [][ReplayStep]_vars

\* what the clients send while a mute runs out
UnmuteTexts == {MsgLoginOk, MsgMuteBob, Hi}
UnmuteData == [room : {NoText}, username : {NoText}, message : UnmuteTexts]

\* the clock is followed over the length of two mutes
MaxUnmuteTime == 2 * MUTE_MINUTES

\* a session is muted, the clock moves by the length of a mute, the hourly
\* cleanup runs or does not, and the session speaks again
UnmuteStep ==
    /\ UNCHANGED powerVars
    /\ \/ \E s \in FreshSockets(ChatSockets) : Connection(s)
       \/ \E s \in Connected : UpdateUsername(s, Bob)
       \/ \E s \in Connected, data \in UnmuteData :
            (IsStored(s, data) => nextKey < MaxChatStored) /\ ChatMessage(s, data)
       \/ \E i \in 1..Len(pending), ok \in BOOLEAN : StoreStep(i, ok)
       \/ \E i \in 1..Len(pending), ok \in BOOLEAN :
            \E f \in GetFailures(pending[i].room) : HistoryResume(i, ok, f)
       \/ Connected # {} /\ Sweep
       \/ now + MUTE_MINUTES <= MaxUnmuteTime /\ Tick(MUTE_MINUTES)

\* a handler whose Redis call has been answered is resumed
SpecUnmute ==
    /\ Init /\ [][UnmuteStep]_vars
    /\ WF_vars(UNCHANGED powerVars
                 /\ \E i \in 1..Len(pending), ok \in BOOLEAN : StoreStep(i, ok))

\* sessions come, log in, are renamed, muted, kicked and banned and go, while
\* the timers of kick and ban and the hourly sweep fire and mutes run out
PrivilegeStep ==
    /\ UNCHANGED powerVars
    /\ \/ \E s \in FreshSockets(ChatSockets) : Connection(s)
       \/ \E s \in Connected : UpdateUsername(s, Bob)
       \/ \E s \in Connected : Disconnect(s)
       \/ \E s \in Connected, data \in ModData : ChatMessage(s, data)
       \/ \E i \in 1..Len(pending) : KickTimeout(i)
       \/ \E i \in 1..Len(pending), ok \in BOOLEAN :
            \E f \in GetFailures(pending[i].room) : HistoryResume(i, ok, f)
       \/ Sweep
       \/ now + MUTE_MINUTES <= MaxUnmuteTime /\ Tick(MUTE_MINUTES)

SpecPrivilege == Init /\ [][PrivilegeStep]_vars

\* storeMessage(roomId, username, message) twice over: once with every Redis
\* call answering, once with the first call throwing, so that Redis and
\* fallbackStore are given the same appends at the same instants
TwinAppend(roomId, username, message) ==
    LET data == MessageData(username, message, now, roomId)
        key == nextKey + 1
        s1 == StoreCallApply(Store, StoreCalls[1], roomId, key, data, now)
        s2 == StoreCallApply(s1, StoreCalls[2], roomId, key, data, now)
        s3 == StoreCallApply(s2, StoreCalls[3], roomId, key, data, now)
        s4 == StoreCallApply(s3, StoreCalls[4], roomId, key, data, now)
    IN  /\ nextKey < MaxAppends
        /\ nextKey' = key
        /\ redisKeys' = s4.keys
        /\ redisLists' = s4.lists
        /\ fallbackStore' = StoreCatch(Store, roomId, data, now).fallback
        /\ lastEvent' = Event("storeMessage both ways", "", roomId, username, message)
        /\ sent' = <<>>
        /\ lastResult' = <<data>>
        /\ UNCHANGED <<registryVars, pending, messageStore, now>>

\* the two stores of src/server.js are filled side by side, read and swept
\* while the clock moves; or the Map of part_000 is
TwinNext ==
    /\ UNCHANGED powerVars
    /\ \/ \E username \in {Guest, Bob} :
            messageStore = EmptyMap /\ TwinAppend(R001, username, Hi)
       \/ \E ok \in BOOLEAN : Recent(R001, ok, {})
       \/ Sweep
       \/ nextKey = 0 /\ MemAppend(R001, Guest, Hi)
       \/ nextKey = 0 /\ messageStore # EmptyMap /\ MemRecent(R001)
       \/ nextKey = 0 /\ messageStore # EmptyMap /\ MemCleanup
       \/ \E t \in StoreInstants : t > now /\ Tick(t - now)

SpecTwin == Init /\ [][TwinNext]_vars

----------------------------------------------------------------------------
(* The keep-alive and the power commands of src/unnamed/part_000 *)

\* String.prototype.toLowerCase on the letters the inputs use
LowerChar(c) ==
    CASE c = "S" -> "s" [] c = "E" -> "e" [] c = "R" -> "r" [] c = "V" -> "v"
      [] c = "P" -> "p" [] c = "O" -> "o" [] c = "W" -> "w" [] c = "D" -> "d"
      [] c = "N" -> "n" [] c = "G" -> "g" [] c = "H" -> "h" [] c = "I" -> "i"
      [] OTHER -> c
ToLowerCase(s) == [i \in 1..Len(s) |-> LowerChar(s[i])]

PowerDownText ==
    <<"s", "e", "r", "v", "e", "r", "!", "p", "o", "w", "e", "r", "!", "d", "o", "w", "n", "!">>
PowerOnText ==
    <<"s", "e", "r", "v", "e", "r", "!", "p", "o", "w", "e", "r", "!", "o", "n">>
StatusText == <<"s", "e", "r", "v", "e", "r", "!", "s", "t", "a", "t", "u", "s">>
HelpText == <<"s", "e", "r", "v", "e", "r", "!", "h", "e", "l", "p">>

ServerAdmin == <<"Server Admin">>
KeepAliveDisabled == <<"Keep-alive function DISABLED. Server may shut down due to inactivity to save instance hours.">>
KeepAliveDisabledConfirm == <<"Keep-alive disabled. Server will use less instance hours but may shut down after ~25 minutes of inactivity.">>
AlreadyDisabled == <<"Keep-alive is already disabled.">>
KeepAliveEnabledNotice == <<"Keep-alive function ENABLED. Server will stay active to prevent shutdown.">>
KeepAliveEnabledConfirm == <<"Keep-alive enabled. Server will stay active to conserve instance hours.">>
AlreadyEnabled == <<"Keep-alive is already enabled.">>
ServerCommandsHelp == <<"Server Commands: server!power!down!, server!power!on, server!status, server!help">>
KeepAlivePing == <<"Server keep-alive ping">>

\* the keep-alive as one value: the flag, the handle and the armed timeouts
Power == [enabled |-> keepAliveEnabled, timer |-> keepAliveTimer, armed |-> armedTimers]

\* clearTimeout(handle): nothing when the handle is null or has fired
ClearTimeout(armed, handle) == armed \ {handle}

\* setTimeout(...): a new Timeout object, which is neither an armed one nor
\* the one the variable still holds
NewTimer(armed, old) ==
    CHOOSE n \in 1..(Cardinality(armed) + 2) : n \notin armed \cup {old}

\* (mutant) the stale handle is cleared and no timeout is armed
StartKeepAliveArmsNothing(pw) ==
    IF ~pw.enabled THEN pw
    ELSE [pw EXCEPT !.armed = ClearTimeout(pw.armed, pw.timer)]

\* startKeepAlive()
StartKeepAlive(pw) ==
    IF ~pw.enabled THEN pw
    ELSE LET cleared == IF pw.timer # 0 THEN ClearTimeout(pw.armed, pw.timer) ELSE pw.armed
             fresh == NewTimer(cleared, pw.timer)
         IN  [pw EXCEPT !.timer = fresh, !.armed = cleared \cup {fresh}]

\* (mutant) the handle is forgotten and its timeout stays armed
StopKeepAliveForgetsTimer(pw) ==
    IF pw.timer # 0 THEN [pw EXCEPT !.timer = 0] ELSE pw

\* stopKeepAlive()
StopKeepAlive(pw) ==
    IF pw.timer # 0
    THEN [pw EXCEPT !.armed = ClearTimeout(pw.armed, pw.timer), !.timer = 0]
    ELSE pw

\* (mutant) the activity arms a timeout and leaves the pending one armed
ResetKeepAliveNoCancel(pw) ==
    IF pw.enabled /\ pw.timer # 0
    THEN LET fresh == NewTimer(pw.armed, pw.timer)
         IN  [pw EXCEPT !.timer = fresh, !.armed = pw.armed \cup {fresh}]
    ELSE pw

\* if (keepAliveEnabled && keepAliveTimer) { clearTimeout(keepAliveTimer); startKeepAlive(); }
ResetKeepAlive(pw) ==
    IF pw.enabled /\ pw.timer # 0
    THEN StartKeepAlive([pw EXCEPT !.armed = ClearTimeout(pw.armed, pw.timer)])
    ELSE pw

SetPower(pw) ==
    /\ keepAliveEnabled' = pw.enabled
    /\ keepAliveTimer' = pw.timer
    /\ armedTimers' = pw.armed

\* users.size, rooms.size and the count of stored messages, as server!status
\* prints them with the uptime (the clock is in minutes) and the flag
RECURSIVE TotalMessages(_, _)
TotalMessages(ms, keys) ==
    IF keys = {} THEN 0
    ELSE LET k == CHOOSE x \in keys : TRUE
         IN  Len(ms[k]) + TotalMessages(ms, keys \ {k})
StatusNotice ==
    <<"Server Status: Uptime: ">> \o NumToString(now \div 60) \o <<"h ">>
        \o NumToString(now % 60) \o <<"m 0s Users: ">> \o NumToString(Len(users))
        \o <<" Rooms: ">> \o NumToString(Cardinality(DOMAIN rooms))
        \o <<" Messages stored: ">>
        \o NumToString(TotalMessages(messageStore, DOMAIN messageStore))
        \o <<" Keep-alive: ">>
        \o (IF keepAliveEnabled THEN <<"ENABLED">> ELSE <<"DISABLED">>)

\* the message is one handleServerCommand answers with true
IsServerCommand(message) ==
    ToLowerCase(message) \in {PowerDownText, PowerOnText, StatusText, HelpText}

\* (mutant) a power command is carried out whatever the flag is
PowerChangesAlways(enabled, wanted) == TRUE

\* if (keepAliveEnabled) for server!power!down!, if (!keepAliveEnabled) for
\* server!power!on: the command changes the flag
PowerChanges(enabled, wanted) == enabled # wanted

\* the branch of handleServerCommand for a power command: the flag, the timer,
\* the stored announcement, the broadcast to the room and the confirmation
PowerCommand(s, room, wanted, announce, confirm, already) ==
    IF PowerChanges(keepAliveEnabled, wanted)
    THEN /\ SetPower(IF wanted THEN StartKeepAlive([Power EXCEPT !.enabled = TRUE])
                     ELSE StopKeepAlive([Power EXCEPT !.enabled = FALSE]))
         /\ messageStore' = MemStoreMessage(messageStore, room, ServerAdmin, announce, now)
         /\ sent' = << RoomEmit(sockRooms, room, "chat message",
                                ChatPayload(ServerAdmin, announce, room, now, TRUE)),
                       SocketEmit(sockRooms, s, "chat message",
                                  ChatPayload(ServerAdmin, confirm, room, now, TRUE)) >>
    ELSE /\ sent' = << SocketEmit(sockRooms, s, "chat message",
                                  ChatPayload(ServerAdmin, already, room, now, TRUE)) >>
         /\ UNCHANGED <<keepAliveEnabled, keepAliveTimer, armedTimers, messageStore>>

\* handleServerCommand(socket, message, user), when it answers true
HandleServerCommand(s, message) ==
    LET room == UsersGet(s).room
        lower == ToLowerCase(message)
    IN  /\ IsServerCommand(message)
        /\ IF lower = PowerDownText
           THEN PowerCommand(s, room, FALSE, KeepAliveDisabled, KeepAliveDisabledConfirm,
                             AlreadyDisabled)
           ELSE IF lower = PowerOnText
           THEN PowerCommand(s, room, TRUE, KeepAliveEnabledNotice, KeepAliveEnabledConfirm,
                             AlreadyEnabled)
           ELSE /\ sent' = << SocketEmit(sockRooms, s, "chat message",
                                 ChatPayload(ServerAdmin,
                                             IF lower = StatusText THEN StatusNotice
                                             ELSE ServerCommandsHelp,
                                             room, now, TRUE)) >>
                /\ UNCHANGED <<keepAliveEnabled, keepAliveTimer, armedTimers, messageStore>>
        /\ UNCHANGED users

\* server.listen(PORT, () => { ...; startKeepAlive(); })
Listen ==
    /\ ~listening
    /\ listening' = TRUE
    /\ SetPower(StartKeepAlive(Power))
    /\ lastEvent' = Event("listen", "", NoText, NoText, NoText)
    /\ sent' = <<>>
    /\ lastResult' = <<>>
    /\ UNCHANGED <<registryVars, pending, storeVars, now>>

\* io.on("connection") of part_000: the history is read at once
MemConnection(s) ==
    /\ listening
    /\ s \notin usedIds
    /\ usedIds' = usedIds \cup {s}
    /\ sockRooms' = MapSet(sockRooms, s, {R001})
    /\ rooms' = RoomsAdd(rooms, R001, s)
    /\ users' = Append(users, [id |-> s, username |-> Guest, room |-> R001, isAdmin |-> FALSE])
    /\ sent' = EmitHistory(sockRooms', s, MemGetRecentMessages(messageStore, R001, now))
                 \o <<SocketEmit(sockRooms', s, "room joined", RoomPayload(R001))>>
    /\ lastEvent' = Event("connection", s, NoText, NoText, NoText)
    /\ lastResult' = <<>>
    /\ UNCHANGED <<admins, mutedUsers, pending, storeVars, now, powerVars>>

\* socket.on("chat message") of part_000
MemChatMessage(s, data) ==
    /\ s \in Connected
    /\ lastEvent' = Event("chat message", s, data.room, data.username, data.message)
    /\ lastResult' = <<>>
    /\ IF ~UsersHas(s)
       THEN /\ sent' = <<>>
            /\ UNCHANGED <<users, messageStore, keepAliveEnabled, keepAliveTimer, armedTimers>>
       ELSE IF IsServerCommand(data.message)
       THEN HandleServerCommand(s, data.message)
       ELSE LET user == UsersGet(s)
                room == IF data.room # NoText THEN data.room ELSE user.room
                author == IF data.username # NoText THEN data.username ELSE user.username
            IN  /\ messageStore' = MemStoreMessage(messageStore, room, author, data.message, now)
                /\ users' = IF data.username # NoText
                            THEN UsersSetName(users, s, data.username) ELSE users
                /\ sent' = << RoomEmit(sockRooms, room, "chat message",
                                       ChatPayload(author, data.message, room, now, FALSE)) >>
                /\ SetPower(ResetKeepAlive(Power))
    /\ UNCHANGED <<rooms, admins, mutedUsers, sockRooms, usedIds, pending,
                   redisKeys, redisLists, fallbackStore, nextKey, now, listening>>

\* socket.on("disconnect") of part_000
MemDisconnect(s) ==
    /\ s \in Connected
    /\ sockRooms' = MapDelete(sockRooms, s)
    /\ IF UsersHas(s)
       THEN /\ rooms' = RoomsRemove(rooms, UsersGet(s).room, s)
            /\ users' = UsersDelete(s)
            /\ sent' = <<OthersEmit(sockRooms', s, UsersGet(s).room, "user left",
                            UserPayload(UsersGet(s).username, UsersGet(s).room))>>
       ELSE /\ sent' = <<>>
            /\ UNCHANGED <<rooms, users>>
    /\ lastEvent' = Event("disconnect", s, NoText, NoText, NoText)
    /\ lastResult' = <<>>
    /\ UNCHANGED <<admins, mutedUsers, usedIds, pending, storeVars, now, powerVars>>

\* socket.on("join room") of part_000: the history is read without a wait
MemJoinRoom(s, roomId) ==
    LET formattedRoom == PadStart(NumToString(ParseInt(roomId)), 3)
        hasUser == UsersHas(s)
        leaves == hasUser /\ UsersGet(s).room # NoText
        prev == UsersGet(s).room
    IN
    /\ s \in Connected
    /\ lastEvent' = Event("join room", s, roomId, NoText, NoText)
    /\ lastResult' = <<>>
    /\ IF ~TestThreeDigits(roomId)
       THEN /\ sent' = <<SocketEmit(sockRooms, s, "error", ErrorPayload(InvalidRoomId))>>
            /\ UNCHANGED <<users, rooms, sockRooms, keepAliveEnabled, keepAliveTimer, armedTimers>>
       ELSE IF RoomNumOutOfRange(ParseInt(roomId))
       THEN /\ sent' = <<SocketEmit(sockRooms, s, "error", ErrorPayload(RoomOutOfRange))>>
            /\ UNCHANGED <<users, rooms, sockRooms, keepAliveEnabled, keepAliveTimer, armedTimers>>
       ELSE IF hasUser /\ UsersGet(s).room = formattedRoom
       THEN /\ sent' = <<>>
            /\ UNCHANGED <<users, rooms, sockRooms, keepAliveEnabled, keepAliveTimer, armedTimers>>
       ELSE /\ sockRooms' = MapSet(sockRooms, s,
                               ((IF leaves THEN sockRooms[s] \ {prev} ELSE sockRooms[s])
                                    \cup {formattedRoom}))
            /\ rooms' = RoomsAdd(IF leaves THEN RoomsRemove(rooms, prev, s) ELSE rooms,
                                 formattedRoom, s)
            /\ users' = IF hasUser THEN UsersSetRoom(users, s, formattedRoom)
                        ELSE Append(users, [id |-> s, username |-> Guest,
                                            room |-> formattedRoom, isAdmin |-> FALSE])
            /\ sent' = (IF leaves
                        THEN <<SocketEmit(sockRooms, s, "room left", RoomPayload(prev))>>
                        ELSE <<>>)
                  \o EmitHistory(sockRooms', s,
                                 MemGetRecentMessages(messageStore, formattedRoom, now))
                  \o << SocketEmit(sockRooms', s, "room joined", RoomPayload(formattedRoom)),
                        OthersEmit(sockRooms', s, formattedRoom, "user joined",
                           UserPayload(IF hasUser THEN UsersGet(s).username ELSE Guest,
                                       formattedRoom)) >>
            /\ SetPower(ResetKeepAlive(Power))
    /\ UNCHANGED <<admins, mutedUsers, usedIds, pending, storeVars, now, listening>>

\* socket.on("leave room") of part_000
MemLeaveRoom(s, roomId) ==
    /\ s \in Connected
    /\ lastEvent' = Event("leave room", s, roomId, NoText, NoText)
    /\ lastResult' = <<>>
    /\ IF UsersHas(s) /\ UsersGet(s).room = roomId
       THEN /\ sockRooms' = MapSet(sockRooms, s, sockRooms[s] \ {roomId})
            /\ rooms' = RoomsRemove(rooms, roomId, s)
            /\ sent' = <<SocketEmit(sockRooms, s, "room left", RoomPayload(roomId))>>
            /\ SetPower(ResetKeepAlive(Power))
       ELSE /\ sent' = <<>>
            /\ UNCHANGED <<sockRooms, rooms, keepAliveEnabled, keepAliveTimer, armedTimers>>
    /\ UNCHANGED <<users, admins, mutedUsers, usedIds, pending, storeVars, now, listening>>

\* socket.on("update username") of part_000
MemUpdateUsername(s, username) ==
    /\ s \in Connected
    /\ lastEvent' = Event("update username", s, NoText, username, NoText)
    /\ lastResult' = <<>>
    /\ sent' = <<>>
    /\ IF UsersHas(s)
       THEN /\ users' = UsersSetName(users, s, IF username # NoText THEN username ELSE Guest)
            /\ SetPower(ResetKeepAlive(Power))
       ELSE UNCHANGED <<users, keepAliveEnabled, keepAliveTimer, armedTimers>>
    /\ UNCHANGED <<rooms, admins, mutedUsers, sockRooms, usedIds, pending, storeVars, now,
                   listening>>

\* socket.on("keep-alive-pong")
MemKeepAlivePong(s) ==
    /\ s \in Connected
    /\ lastEvent' = Event("keep-alive-pong", s, NoText, NoText, NoText)
    /\ lastResult' = <<>>
    /\ sent' = <<>>
    /\ SetPower(ResetKeepAlive(Power))
    /\ UNCHANGED <<registryVars, pending, storeVars, now, listening>>

\* socket.on("get rooms") of part_000
MemGetRooms(s) ==
    /\ s \in Connected
    /\ lastEvent' = Event("get rooms", s, NoText, NoText, NoText)
    /\ lastResult' = <<>>
    /\ sent' = <<SocketEmit(sockRooms, s, "rooms list", ListPayload(RoomList(rooms)))>>
    /\ SetPower(ResetKeepAlive(Power))
    /\ UNCHANGED <<registryVars, pending, storeVars, now, listening>>

\* (mutant) the timeout fires and its callback does not call startKeepAlive
KeepAliveTimeoutOnce(id) ==
    /\ id \in armedTimers
    /\ sent' = IF keepAliveEnabled
               THEN <<Emission("all", Connected, "keep-alive-ping",
                               Payload(NoText, NoText, KeepAlivePing, now, FALSE, <<>>))>>
               ELSE <<>>
    /\ SetPower([Power EXCEPT !.armed = @ \ {id}])
    /\ lastEvent' = Event("keep-alive timeout", "", NoText, NoText, NoText)
    /\ lastResult' = <<>>
    /\ UNCHANGED <<registryVars, pending, storeVars, now, listening>>

\* the timeout armed by startKeepAlive fires: keepServerAlive(), startKeepAlive()
KeepAliveTimeout(id) ==
    /\ id \in armedTimers
    /\ sent' = IF keepAliveEnabled
               THEN <<Emission("all", Connected, "keep-alive-ping",
                               Payload(NoText, NoText, KeepAlivePing, now, FALSE, <<>>))>>
               ELSE <<>>
    /\ SetPower(StartKeepAlive([Power EXCEPT !.armed = @ \ {id}]))
    /\ lastEvent' = Event("keep-alive timeout", "", NoText, NoText, NoText)
    /\ lastResult' = <<>>
    /\ UNCHANGED <<registryVars, pending, storeVars, now, listening>>

\* process.on('SIGTERM') and process.on('SIGINT'): stopKeepAlive() and
\* server.close(), after which nothing connects while the open sockets go on
Shutdown ==
    /\ listening
    /\ listening' = FALSE
    /\ SetPower(StopKeepAlive(Power))
    /\ lastEvent' = Event("shutdown", "", NoText, NoText, NoText)
    /\ sent' = <<>>
    /\ lastResult' = <<>>
    /\ UNCHANGED <<registryVars, pending, storeVars, now>>

MsgPowerDownCaps ==
    <<"S", "e", "r", "v", "e", "r", "!", "P", "O", "W", "E", "R", "!", "d", "o", "w", "n", "!">>
PowerSockets == {"s1", "s2"}
MsgPowerDownUpper ==
    <<"s", "e", "r", "v", "e", "r", "!", "P", "O", "W", "E", "R", "!", "D", "O", "W", "N", "!">>
PowerTexts == {Hi, PowerDownText, MsgPowerDownCaps, MsgPowerDownUpper, PowerOnText,
               StatusText, HelpText}
PowerData == [room : {NoText}, username : {NoText}, message : PowerTexts] \cup
             [room : {R100}, username : {NoText}, message : {PowerDownText, PowerOnText}]

\* the program is part_000: it starts, sockets come and go and chat, the
\* keep-alive timeout fires, the process is told to stop
PowerNext ==
    \/ Listen
    \/ \E s \in FreshSockets(PowerSockets) : MemConnection(s)
    \/ \E s \in Connected, data \in PowerData : MemChatMessage(s, data)
    \/ \E s \in Connected : MemDisconnect(s)
    \/ \E id \in armedTimers : KeepAliveTimeout(id)
    \/ Shutdown

SpecPower == Init /\ [][PowerNext]_vars

\* the handles setTimeout gives out: one is armed at a time, and a new one
\* differs from the one it replaces
TimerIds == {1, 2}

\* a timeout that stays armed fires: the event loop runs the callback of a
\* timer that is due and was not cleared
SpecTimer ==
    /\ Init /\ [][PowerNext]_vars
    /\ \A id \in TimerIds : WF_vars(KeepAliveTimeout(id))

\* what the clients of part_000 send while the timer is watched
ActivityTexts == {Hi, PowerDownText, PowerOnText, StatusText}
ActivityData == [room : {NoText}, username : {NoText}, message : ActivityTexts]
ActivityRooms == {R001, R100, <<"1", "0", "1">>}

\* the clients stop sending messages when this many are stored
MaxActivityStored == 2

\* part_000 with every handler of a socket
ActivityNext ==
    \/ Listen
    \/ \E s \in FreshSockets(PowerSockets) : MemConnection(s)
    \/ \E s \in Connected, data \in ActivityData :
         /\ TotalMessages(messageStore, DOMAIN messageStore) < MaxActivityStored
         /\ MemChatMessage(s, data)
    \/ \E s \in Connected, roomId \in ActivityRooms : MemJoinRoom(s, roomId)
    \/ \E s \in Connected, roomId \in {R001, R100} : MemLeaveRoom(s, roomId)
    \/ \E s \in Connected : MemUpdateUsername(s, Bob)
    \/ \E s \in Connected : MemKeepAlivePong(s)
    \/ \E s \in Connected : MemGetRooms(s)
    \/ \E s \in Connected : MemDisconnect(s)
    \/ \E id \in armedTimers : KeepAliveTimeout(id)
    \/ Shutdown

SpecActivity == Init /\ [][ActivityNext]_vars

Next == RegistryStep

Spec == Init /\ [][Next]_vars

----------------------------------------------------------------------------
(* Properties of the registry *)

\* the rooms whose membership set holds the socket
RoomsOf(id) == {r \in DOMAIN rooms : id \in rooms[r]}

\* C1: every connected session is a member of exactly one room's membership
\* set, and that room is the one its session entry records
\* (users[id].room = r iff id is in rooms[r]).
C1_SessionInExactlyItsRoom ==
    \A i \in 1..Len(users) : RoomsOf(users[i].id) = {users[i].room}

\* C2: a room id is a key of the room index iff its membership set is not
\* empty: no step leaves an empty set in the index, and a key leaves the
\* index only when its last member is taken out.
C2_NoEmptyRoomInIndex == \A r \in DOMAIN rooms : rooms[r] # {}
C2_DropsOnlyEmptiedRooms ==
    \A r \in (DOMAIN rooms) \ (DOMAIN rooms') :
        /\ rooms[r] = {lastEvent'.id}
        /\ lastEvent'.ev \in {"join room", "leave room", "disconnect"}
C2_RoomKeyIffNonEmpty ==
    C2_NoEmptyRoomInIndex /\ [][C2_NoEmptyRoomInIndex' /\ C2_DropsOnlyEmptiedRooms]_vars

\* a room was emptied by the last step and is no longer a key
C2_Witness ==
    /\ lastEvent.ev \in {"leave room", "join room"}
    /\ Len(sent) = 1 /\ sent[1].ev = "room left"
    /\ sent[1].data.room \notin DOMAIN rooms
    /\ rooms # EmptyMap

\* C3: no session is a member of two rooms' membership sets at the same time;
\* the join that moves a session takes it out of the old set and puts it in
\* the new one in one step.
C3_AtMostOneRoom == \A id \in usedIds : Cardinality(RoomsOf(id)) <= 1

\* a session has just moved from one room to another
C3_Witness ==
    /\ lastEvent.ev = "join room"
    /\ Len(sent) = 1 /\ sent[1].ev = "room left"
    /\ UsersHas(lastEvent.id)
    /\ UsersGet(lastEvent.id).room # sent[1].data.room
    /\ RoomsOf(lastEvent.id) = {UsersGet(lastEvent.id).room}
    /\ sent[1].data.room \in DOMAIN rooms

----------------------------------------------------------------------------
(* Properties of the chat interpreter *)

\* the step handles a chat message from a socket that has a session
ChatFrom(id) ==
    /\ lastEvent'.ev = "chat message"
    /\ lastEvent'.id = id
    /\ UsersHas(id)

\* the step's emissions are one system notice, delivered to the socket alone
OnePrivateNotice(id) ==
    /\ Len(sent') = 1
    /\ sent'[1].via = "socket"
    /\ sent'[1].to = {id}
    /\ sent'[1].ev = "chat message"
    /\ sent'[1].data.isSystem
    /\ sent'[1].data.username = System

\* C4: when a session whose mute expiry lies ahead sends a chat message that
\* is not a command, nothing is appended to the message store and nothing is
\* broadcast to the room, now or by a suspended handler; the only effect is
\* one private notice to the sender, and the room memberships and the logs
\* are the same before and after.
C4_MutedChatStep(id) ==
    /\ ChatFrom(id)
    /\ id \in DOMAIN mutedUsers
    /\ mutedUsers[id] > now
    /\ ~StartsWith(lastEvent'.message, ServerPrefix)
C4_MutedChatOnlyNotifiesSender ==
    [][\A id \in ChatSockets :
          C4_MutedChatStep(id) =>
              /\ OnePrivateNotice(id)
              /\ sent'[1].data.message = MutedNotice((mutedUsers[id] - now) * 60)
              /\ UNCHANGED <<registryVars, storeVars, pending>>]_vars

\* a muted session has just sent a plain message and got the mute notice,
\* while another suspended handler could have taken a message
C4_Witness ==
    /\ lastEvent.ev = "chat message"
    /\ lastEvent.message = Hi
    /\ lastEvent.id \in DOMAIN mutedUsers
    /\ mutedUsers[lastEvent.id] > now
    /\ Len(sent) = 1
    /\ sent[1].to = {lastEvent.id}
    /\ sent[1].data.message = MutedNotice((mutedUsers[lastEvent.id] - now) * 60)
    /\ nextKey < MaxChatStored
    /\ Len(pending) < MaxPending

\* the texts that name a moderation command
ModerationCommands == {MsgKickBob, MsgMuteBob, MsgBanBob, MsgClear}

\* C5: a moderation command (kick, mute, ban, clear) from a session that is
\* not privileged changes no session, room membership, mute or message log,
\* sends exactly one private permission-denied notice to the sender and
\* nothing to the named target or to the room, and its text is neither
\* broadcast nor stored, now or by a suspended handler.
C5_DeniedStep(id) ==
    /\ ChatFrom(id)
    /\ id \notin admins
    /\ lastEvent'.message \in ModerationCommands
C5_UnprivilegedCommandDenied ==
    [][\A id \in ChatSockets :
          C5_DeniedStep(id) =>
              /\ OnePrivateNotice(id)
              /\ sent'[1].data.message = NoPermissionNotice
              /\ UNCHANGED <<registryVars, storeVars, pending>>]_vars

\* an unprivileged session has just been denied a kick of a connected bob,
\* who is another session
C5_Witness ==
    /\ lastEvent.ev = "chat message"
    /\ lastEvent.message = MsgKickBob
    /\ lastEvent.id \notin admins
    /\ Len(sent) = 1
    /\ sent[1].data.message = NoPermissionNotice
    /\ GetUserByUsername(users, Bob) # 0
    /\ users[GetUserByUsername(users, Bob)].id # lastEvent.id
    /\ users[GetUserByUsername(users, Bob)].id \in Connected

----------------------------------------------------------------------------
(* Properties of kick and ban *)

\* the last step was "server!ban bob" from a privileged session, and the
\* socket is the session that the name bob finds
BanJustIssued(target) ==
    /\ lastEvent.ev = "chat message"
    /\ lastEvent.message = MsgBanBob
    /\ UsersHas(lastEvent.id)
    /\ lastEvent.id \in admins
    /\ GetUserByUsername(users, Bob) # 0
    /\ users[GetUserByUsername(users, Bob)].id = target

\* the target's mute runs for 24 hours from now and the ban notice went to it
BanMarked(target) ==
    /\ target \in DOMAIN mutedUsers
    /\ mutedUsers[target] = now + BAN_MINUTES
    /\ \E k \in 1..Len(sent) :
          /\ sent[k].to = {target}
          /\ sent[k].data.isSystem
          /\ sent[k].data.message = YouAreBannedNotice(UsersGet(lastEvent.id).username)

\* the socket has no session and is in no membership set
Gone(target) == ~UsersHas(target) /\ RoomsOf(target) = {}

\* C6: when a privileged session issues "server!ban bob" while a session
\* named bob is connected, bob's mute expiry is set to now + 24h, bob is sent
\* a private notice, and after the disconnect delay bob's connection is
\* eventually absent from the session registry and from every room
\* membership set.
C6_BanMutesNotifiesAndDisconnects ==
    \A target \in ChatSockets :
        [](BanJustIssued(target) => (BanMarked(target) /\ <>Gone(target)))

\* bob has just been banned by another session and is still connected
C6_Witness ==
    \E target \in ChatSockets :
        /\ BanJustIssued(target)
        /\ target # lastEvent.id
        /\ UsersHas(target)
        /\ RoomsOf(target) # {}
        /\ \E i \in 1..Len(pending) : pending[i].kind = "kick" /\ pending[i].id = target

----------------------------------------------------------------------------
(* Properties of the message stores *)

\* the steps whose result is what recent(room) returned
ReadEvents == {"getRecentMessages", "history", "getRecentMessages in part_000"}

\* C7: recent(room) never returns more than 200 entries (MAX_MESSAGES here),
\* for any history of appends and whichever of Redis, fallbackStore and
\* part_000's messageStore serves the read.
C7_RecentAtMostMax ==
    lastEvent.ev \in ReadEvents => Len(lastResult) <= MAX_MESSAGES

\* a read of src/server.js came back as long as it can be, from a Redis list
\* that more messages than the cap had been pushed to
C7_Witness ==
    /\ lastEvent.ev = "getRecentMessages"
    /\ nextKey > MAX_MESSAGES
    /\ R001 \in DOMAIN redisLists
    /\ Len(redisLists[R001].items) >= MAX_MESSAGES
    /\ Len(lastResult) = HALF_MESSAGES

\* C8: recent(room) never returns an entry whose age at read time (the time
\* of the read minus the entry's timestamp) exceeds the 6-hour TTL, even
\* when the sweep has not run and expired entries are still in the store.
C8_NoEntryOlderThanTTL ==
    lastEvent.ev \in ReadEvents =>
        \A k \in 1..Len(lastResult) : now - lastResult[k].timestamp <= MESSAGE_TTL

\* an append has just returned, it was the one after the log's 200th
\* (MAX_MESSAGES-th), every call of every append was answered, and the list
\* holds the newest 200 keys, all of them alive
C9_AppendedToFullLog ==
    /\ lastEvent.ev = "chat message resumed"
    /\ lastEvent.room = R001
    /\ pending = <<>>
    /\ nextKey = MAX_MESSAGES + 1
    /\ fallbackStore = EmptyMap
    /\ R001 \in DOMAIN redisLists
    /\ redisLists[R001].items = [k \in 1..MAX_MESSAGES |-> nextKey + 1 - k]
    /\ \A k \in 2..nextKey : RedisKeyLive(redisKeys, k, now)

\* C9: appending one more message to a room whose log already holds 200
\* unexpired entries makes recent(room) return exactly 200 entries, with the
\* previously oldest entry gone from the log and the new message the last
\* (newest) entry.
C9_FullLogReadReturnsMax ==
    C9_AppendedToFullLog =>
        LET recent == GetRecentMessages(Store, R001, TRUE, {}, now)
        IN  /\ Len(recent) = MAX_MESSAGES
            /\ recent[Len(recent)] = lastResult[1]
            /\ \A k \in 1..Len(redisLists[R001].items) : redisLists[R001].items[k] # 1

\* C10: after append(room, author, body) has completed, a recent(room) that
\* follows at once includes an entry with that author, body and room and the
\* timestamp assigned at append, also when the append was served by
\* fallbackStore because a Redis call threw: whether Redis answers the read
\* or not, the entry is there.
C10_RoundTrip ==
    lastEvent.ev = "chat message resumed" =>
        \A lRangeOk \in BOOLEAN :
            LET recent == GetRecentMessages(Store, lastResult[1].room, lRangeOk, {}, now)
            IN  \E k \in 1..Len(recent) : recent[k] = lastResult[1]

\* the step is the return of the storeMessage call suspended at pending[i]
\* (the keys of the calls in progress are distinct)
StoreReturns(i) ==
    /\ pending[i].kind = "chat"
    /\ lastEvent'.ev = "chat message resumed"
    /\ Len(pending') = Len(pending) - 1
    /\ \A j \in 1..Len(pending') :
          pending'[j].key = (IF j < i THEN pending[j].key ELSE pending[j + 1].key)

\* the entry that the catch branch pushes for the call suspended at p
FallbackEntry(p) ==
    [username |-> p.author, message |-> p.message, timestamp |-> p.timestamp,
     room |-> p.room, expiresAt |-> now + MESSAGE_TTL]

\* no step of the store's callers emits an 'error' event
NoErrorEmitted == \A k \in 1..Len(sent') : sent'[k].ev # "error"

\* C11: append and recent never fail the caller.  When storeMessage returns,
\* either its fourth Redis call has just answered or the message is the
\* newest entry of the room's fallbackStore; it returns the message, and the
\* handler of "chat message" broadcasts it to the room.  A read returns a
\* sequence of the room's messages.  No 'error' event goes to any client.
C11_AppendAndRecentAreTotal ==
    [][/\ \A i \in 1..Len(pending) :
            StoreReturns(i) =>
                LET p == pending[i]
                    data == MessageData(p.author, p.message, p.timestamp, p.room)
                IN  /\ \/ /\ p.step + 1 = Len(StoreCalls)
                          /\ fallbackStore' = fallbackStore
                       \/ /\ p.room \in DOMAIN fallbackStore'
                          /\ fallbackStore'[p.room][Len(fallbackStore'[p.room])]
                                 = FallbackEntry(p)
                    /\ lastResult' = <<data>>
                    /\ Len(sent') = 1
                    /\ sent'[1].via = "room"
                    /\ sent'[1].to = InRoom(sockRooms, p.room)
                    /\ sent'[1].ev = "chat message"
                    /\ sent'[1].data.message = p.message
                    /\ sent'[1].data.timestamp = p.timestamp
                    /\ sent'[1].data.room = p.room
       /\ lastEvent'.ev \in {"chat message", "store call", "chat message resumed"}
                             \cup ReadEvents
            => NoErrorEmitted
       /\ lastEvent'.ev \in ReadEvents
            => \A k \in 1..Len(lastResult') : lastResult'[k].room = lastEvent'.room]_vars

\* storeMessage has just returned from its catch branch after SETEX had
\* answered and a later call threw, and the message went to the room
C11_Witness ==
    /\ lastEvent.ev = "chat message resumed"
    /\ nextKey \in DOMAIN redisKeys
    /\ R001 \in DOMAIN fallbackStore
    /\ Len(lastResult) = 1
    /\ fallbackStore[R001][Len(fallbackStore[R001])].timestamp = lastResult[1].timestamp
    /\ Len(sent) = 1
    /\ sent[1].to = {"s1"}
    /\ sent[1].data.message = Hi

----------------------------------------------------------------------------
(* Properties of the keep-alive of src/unnamed/part_000 *)

\* the event is a chat message whose text is this command in any case
IsCommand(e, text) == e.ev = "chat message" /\ ToLowerCase(e.message) = text
IsPowerCommand(e) == IsCommand(e, PowerDownText) \/ IsCommand(e, PowerOnText)

TimerPending == keepAliveTimer # 0 /\ keepAliveTimer \in armedTimers

\* how many of the emissions went to a room
RoomBroadcasts(s) == Cardinality({k \in 1..Len(s) : s[k].via = "room"})

\* the emissions are one chat message from "Server Admin" to this socket alone
PrivateAdminNotice(s, id, text) ==
    /\ Len(s) = 1
    /\ s[1].via = "socket" /\ s[1].to = {id} /\ s[1].ev = "chat message"
    /\ s[1].data.username = ServerAdmin /\ s[1].data.message = text

\* C12: power-down followed by power-on leaves the keep-alive flag enabled and
\* a keep-alive timeout armed. A power-down always leaves the flag off, only a
\* power command changes the flag, and a power-on that finds the flag off (as
\* it is after a power-down, whatever else happened in between) turns it on and
\* arms a timeout whose handle is in keepAliveTimer.
C12_PowerDownThenOnRunsTimer ==
    [][ /\ IsCommand(lastEvent', PowerDownText) => ~keepAliveEnabled'
        /\ ~IsPowerCommand(lastEvent') => keepAliveEnabled' = keepAliveEnabled
        /\ (~keepAliveEnabled /\ IsCommand(lastEvent', PowerOnText))
              => (keepAliveEnabled' /\ TimerPending')
        /\ (IsCommand(lastEvent, PowerDownText) /\ IsCommand(lastEvent', PowerOnText))
              => (keepAliveEnabled' /\ TimerPending') ]_vars

\* power-on was just handled right after power-down: the room's log ends with
\* the two announcements, and the flag is on with a timeout armed
C12_Witness ==
    /\ IsCommand(lastEvent, PowerOnText)
    /\ R001 \in DOMAIN messageStore
    /\ Len(messageStore[R001]) >= 2
    /\ messageStore[R001][Len(messageStore[R001]) - 1].message = KeepAliveDisabled
    /\ messageStore[R001][Len(messageStore[R001])].message = KeepAliveEnabledNotice
    /\ RoomBroadcasts(sent) = 1
    /\ keepAliveEnabled /\ TimerPending

\* C13: a power command that asks for the state the flag already has sends one
\* private notice to the sender and nothing to the room, appends nothing to
\* the store and leaves the flag, the handle and the armed timeouts as they
\* were. A power-down that follows a power-down broadcasts nothing, and one
\* that finds the flag on broadcasts once: two in a row, the first of which
\* switches the keep-alive off, make one broadcast.
C13_RedundantPowerCommandOnlyNotifies ==
    [][ /\ (IsCommand(lastEvent', PowerDownText) /\ ~keepAliveEnabled)
              => /\ PrivateAdminNotice(sent', lastEvent'.id, AlreadyDisabled)
                 /\ UNCHANGED <<messageStore, powerVars, registryVars>>
        /\ (IsCommand(lastEvent', PowerOnText) /\ keepAliveEnabled)
              => /\ PrivateAdminNotice(sent', lastEvent'.id, AlreadyEnabled)
                 /\ UNCHANGED <<messageStore, powerVars, registryVars>>
        /\ (IsCommand(lastEvent', PowerDownText) /\ keepAliveEnabled)
              => RoomBroadcasts(sent') = 1
        /\ (IsCommand(lastEvent, PowerDownText) /\ IsCommand(lastEvent', PowerDownText))
              => RoomBroadcasts(sent') = 0 ]_vars

\* a second power-down was just answered in private, and the room's log holds
\* the one announcement of the first
C13_Witness ==
    /\ IsCommand(lastEvent, PowerDownText)
    /\ PrivateAdminNotice(sent, lastEvent.id, AlreadyDisabled)
    /\ ~keepAliveEnabled /\ keepAliveTimer = 0 /\ armedTimers = {}
    /\ R001 \in DOMAIN messageStore
    /\ Len(messageStore[R001]) = 1
    /\ messageStore[R001][1].message = KeepAliveDisabled

----------------------------------------------------------------------------
(* Properties of the handlers of src/server.js, continued *)

\* the room ids a join accepts: "001" to "100"
ValidRoomIds == {PadStart(NumToString(n), 3) : n \in 1..100}

\* C14: a join-room whose room id is not three digits, or whose number is
\* outside 1..100, sends one 'error' to the sender alone and changes nothing:
\* the session registry, the room index, the adapter's rooms, the privileged
\* set, the mute table, the stores and the suspended handlers stay as they were.
C14_InvalidJoinRejected ==
    [][ (lastEvent'.ev = "join room" /\ lastEvent'.room \notin ValidRoomIds)
          => /\ Len(sent') = 1
             /\ sent'[1].via = "socket" /\ sent'[1].to = {lastEvent'.id}
             /\ sent'[1].ev = "error"
             /\ sent'[1].data.message \in {InvalidRoomId, RoomOutOfRange}
             /\ UNCHANGED <<registryVars, pending, storeVars>> ]_vars

\* a session in room "100", with another session connected, has just asked
\* for room "000" and was answered with the out-of-range error
C14_Witness ==
    /\ lastEvent.ev = "join room"
    /\ lastEvent.room = <<"0", "0", "0">>
    /\ Len(sent) = 1 /\ sent[1].ev = "error" /\ sent[1].data.message = RoomOutOfRange
    /\ Len(users) = 2
    /\ UsersHas(lastEvent.id) /\ UsersGet(lastEvent.id).room = R100

\* the socket has no entry in users, rooms, admins, mutedUsers or the adapter
Absent(id) ==
    /\ ~UsersHas(id)
    /\ \A r \in DOMAIN rooms : id \notin rooms[r]
    /\ id \notin admins
    /\ id \notin DOMAIN mutedUsers
    /\ id \notin DOMAIN sockRooms

\* the step ran the disconnect handler for a socket that had a session
Disconnects(id) ==
    /\ lastEvent'.ev \in {"disconnect", "kick timeout"}
    /\ lastEvent'.id = id
    /\ UsersHas(id)

\* C15: when the disconnect handler has run for a session, its id is in no
\* entry of users, in no membership set, not in admins and not in mutedUsers,
\* and stays so; the step changes nothing else: the other sessions' entries
\* keep their order and content, every other membership is as it was (a set
\* goes only when it held this id alone), and the privileged set and the mute
\* table lose this id and nothing more.
C15_DisconnectCleansOnlyItself ==
    /\ [](\A id \in usedIds \ DOMAIN sockRooms : Absent(id))
    /\ [][ \A id \in usedIds : Disconnects(id) =>
             /\ Absent(id)'
             /\ users' = SelectSeq(users, LAMBDA u : u.id # id)
             /\ DOMAIN rooms' = {r \in DOMAIN rooms : rooms[r] \ {id} # {}}
             /\ \A r \in DOMAIN rooms' : rooms'[r] = rooms[r] \ {id}
             /\ admins' = admins \ {id}
             /\ mutedUsers' = [x \in (DOMAIN mutedUsers) \ {id} |-> mutedUsers[x]]
             /\ sockRooms' = [x \in (DOMAIN sockRooms) \ {id} |-> sockRooms[x]] ]_vars

\* a privileged session has just disconnected while a muted session stays:
\* the mute table and the registry still hold the other session
C15_Witness ==
    /\ lastEvent.ev = "disconnect"
    /\ Absent(lastEvent.id)
    /\ Len(users) = 1
    /\ users[1].id \in DOMAIN mutedUsers
    /\ RoomsOf(users[1].id) # {}
    /\ admins = {}
    /\ Len(sent) = 1 /\ sent[1].ev = "user left" /\ sent[1].to = {users[1].id}

\* how many messages storeMessage has returned and the handler has broadcast:
\* every key handed out, less the calls still in progress
BroadcastCount == nextKey - Cardinality({i \in 1..Len(pending) : pending[i].kind = "chat"})

\* C16: the broadcast of a plain message comes after storeMessage has
\* returned, so a read of the room that starts after the broadcast returns the
\* message: while nothing has expired, been trimmed or been cleared, a read
\* returns at least as many entries as messages were broadcast to the room
\* (here every message goes to room "001" and the clock stands still).
C16_ReadAfterBroadcastReturnsIt ==
    [][ ( /\ lastEvent'.ev \in {"getRecentMessages", "history"}
          /\ lastEvent'.room = R001
          /\ BroadcastCount <= HALF_MESSAGES )
          => Len(lastResult') >= BroadcastCount ]_vars

\* the user entries are as before but for this socket's isAdmin, now true
OnlyMarkedAdmin(id) ==
    /\ Len(users') = Len(users)
    /\ \A i \in 1..Len(users) :
          users'[i] = IF users[i].id = id THEN [users[i] EXCEPT !.isAdmin = TRUE]
                      ELSE users[i]

\* C17: an admin login with valid credentials puts the sender, and nobody
\* else, in the privileged set and answers with one confirmation to the sender
\* alone; with invalid credentials it answers with one rejection to the sender
\* alone and the privileged set stays as it was. Either way nothing goes to a
\* room, no store call is started and the stores are untouched.
C17_LoginIsPrivateAndUnstored ==
    [][ \A id \in ChatSockets :
          /\ (ChatFrom(id) /\ lastEvent'.message \in {MsgLoginOk, MsgLoginExtra})
                => /\ admins' = admins \cup {id}
                   /\ OnlyMarkedAdmin(id)
                   /\ OnePrivateNotice(id)
                   /\ sent'[1].data.message = LoginOkNotice
                   /\ UNCHANGED <<rooms, mutedUsers, sockRooms, pending, storeVars>>
          /\ (ChatFrom(id) /\ lastEvent'.message = MsgLoginBad)
                => /\ OnePrivateNotice(id)
                   /\ sent'[1].data.message = LoginFailedNotice
                   /\ UNCHANGED <<registryVars, pending, storeVars>> ]_vars

\* one of two sessions has just logged in while the log of the room has an
\* entry: it alone is privileged and the confirmation went to it alone
C17_Witness ==
    /\ lastEvent.ev = "chat message"
    /\ lastEvent.message = MsgLoginOk
    /\ admins = {lastEvent.id}
    /\ Len(users) = 2
    /\ Len(sent) = 1 /\ sent[1].to = {lastEvent.id} /\ sent[1].data.message = LoginOkNotice
    /\ nextKey \in DOMAIN redisKeys \/ R001 \in DOMAIN fallbackStore
    /\ pending = <<>>

\* C18: an admin login that does not split on '#' into exactly two parts is
\* handled as a plain message: sent by an unmuted session it starts a store
\* call for the text, which is then broadcast to the room.
C18_MalformedLoginIsPlainMessage ==
    [][ \A id \in ChatSockets :
          ( /\ ChatFrom(id)
            /\ lastEvent'.message = MsgLoginMalformed
            /\ IsUserMuted(mutedUsers, id, now) = 0
            /\ Len(pending) < MaxPending )
          => /\ Len(pending') = Len(pending) + 1
             /\ pending'[Len(pending')].kind = "chat"
             /\ pending'[Len(pending')].message = MsgLoginMalformed ]_vars

\* the text is the login prefix, a configured user name, ":" and that user's
\* password, with nothing after it or with further ":" fields
MatchesCredential(message) ==
    \E u \in DOMAIN ADMIN_CREDENTIALS :
        LET login == LoginPrefix \o u \o <<":">> \o ADMIN_CREDENTIALS[u]
        IN  \/ message = login
            \/ StartsWith(message, login) /\ message[Len(login) + 1] = ":"

\* C19: privilege is held by connected sessions only and is given by nothing
\* but a login whose user and password are a configured pair: a socket enters
\* the privileged set only in the step that handles such a login sent by
\* itself, a new connection is not in the set and its entry is not marked,
\* and the set and the marks of the entries agree.
C19_PrivilegeOnlyByCredentialCheck ==
    /\ [](/\ admins \subseteq DOMAIN sockRooms
          /\ \A i \in 1..Len(users) : users[i].isAdmin <=> users[i].id \in admins)
    /\ [][ /\ \A id \in admins' \ admins :
                ChatFrom(id) /\ MatchesCredential(lastEvent'.message)
           /\ lastEvent'.ev = "connection"
                => /\ lastEvent'.id \notin admins
                   /\ lastEvent'.id \notin admins'
                   /\ ~users'[Len(users')].isAdmin ]_vars

\* a session has just connected while another one is privileged: the new
\* one is not
C19_Witness ==
    /\ lastEvent.ev = "connection"
    /\ admins # {}
    /\ lastEvent.id \notin admins
    /\ UsersHas(lastEvent.id) /\ ~UsersGet(lastEvent.id).isAdmin

\* C20: when a privileged clear of a room has completed (clearRoomMessages
\* has returned and the notice was broadcast), a read of the room returns
\* nothing that was appended before the clear, whether Redis answers the read
\* or not and whatever Redis did during the clear. Here no store call is in
\* progress while the clear runs, so every entry is from before the clear.
C20_ClearedRoomReadsEmpty ==
    lastEvent.ev = "clear resumed" =>
        \A lRangeOk \in BOOLEAN :
            GetRecentMessages(Store, lastEvent.room, lRangeOk, {}, now) = <<>>

----------------------------------------------------------------------------
(* Properties of the routing of messages and notices in src/server.js *)

\* C21: a plain chat message is stored in, and broadcast to, the room its
\* sender is a member of: the store call a chat message starts is for the room
\* the sender's entry names, and the broadcast that ends a store call goes to
\* the room the call was for.
C21_ChatGoesToSendersRoom ==
    [][ /\ \A id \in ChatSockets :
              (ChatFrom(id) /\ Len(pending') = Len(pending) + 1
                  /\ pending'[Len(pending')].kind = "chat")
                 => pending'[Len(pending')].room = UsersGet(id).room
        /\ \A i \in 1..Len(pending) :
              StoreReturns(i) =>
                 \A k \in 1..Len(sent') :
                    sent'[k].via = "room" => sent'[k].data.room = pending[i].room ]_vars

\* some emission of the sequence is this event about this room to these sockets
Emitted(s, ev, room, to) ==
    \E k \in 1..Len(s) : s[k].ev = ev /\ s[k].data.room = room /\ s[k].to = to

\* the last step was a join-room that took its socket out of a room (the
\* room-left it sent says which), and this step is the rest of that handler,
\* after the history has been read
MoveCompletes ==
    /\ lastEvent.ev = "join room"
    /\ Len(sent) = 1 /\ sent[1].ev = "room left" /\ sent[1].to = {lastEvent.id}
    /\ lastEvent'.ev = "join room resumed" /\ lastEvent'.id = lastEvent.id

\* what the join-room handler emitted before and after its await
MoveEmissions == sent \o sent'

\* the notices of a move that the moving session and the new room get
MoveNoticesButUserLeft(id, A, B) ==
    /\ Emitted(MoveEmissions, "room left", A, {id})
    /\ Emitted(MoveEmissions, "room joined", B, {id})
    /\ Emitted(MoveEmissions, "user joined", B, InRoom(sockRooms, B) \ {id})

\* C22: when a session moves from room A to room B, the handler sends
\* user-left to the sessions that remain in A (when there are any),
\* user-joined to the other sessions in B, and room-left for A and
\* room-joined for B to the session that moves.
C22_MoveNotifiesBothRooms ==
    [][ MoveCompletes =>
          LET id == lastEvent.id
              A == sent[1].data.room
              B == lastEvent'.room
          IN  /\ MoveNoticesButUserLeft(id, A, B)
              /\ InRoom(sockRooms, A) # {}
                    => Emitted(MoveEmissions, "user left", A, InRoom(sockRooms, A)) ]_vars

\* the part of C22 that the handler does
C22_MoveNotifiesNewRoomOnly ==
    [][ MoveCompletes =>
          MoveNoticesButUserLeft(lastEvent.id, sent[1].data.room, lastEvent'.room) ]_vars

\* C23: a message that starts with "server!" is never given to storeMessage
\* and never broadcast to a room as chat text, from a privileged sender or
\* not: the step that handles it starts no store call and leaves the stores
\* alone, no store call in progress ever carries such a text, and no emission
\* to a room ever does. An unrecognised subcommand from a privileged sender is
\* answered with one private notice that names it, and nothing changes.
C23_ReservedPrefixNeverStoredOrBroadcast ==
    /\ [](\A i \in 1..Len(pending) :
             pending[i].kind = "chat" => pending[i].message \notin CommandTexts)
    /\ [][ /\ \A k \in 1..Len(sent') :
                sent'[k].via = "room" => sent'[k].data.message \notin CommandTexts
           /\ \A id \in ChatSockets :
                (ChatFrom(id) /\ lastEvent'.message \in CommandTexts)
                   => /\ UNCHANGED storeVars
                      /\ \A i \in 1..Len(pending') : pending'[i].kind = "chat"
                            => (i <= Len(pending) /\ pending'[i] = pending[i])
           /\ \A id \in ChatSockets :
                (ChatFrom(id) /\ id \in admins /\ lastEvent'.message = MsgUnknown)
                   => /\ OnePrivateNotice(id)
                      /\ sent'[1].data.message = UnknownCommandNotice(<<"f", "o", "o">>)
                      /\ UNCHANGED <<registryVars, pending, storeVars>> ]_vars

\* a privileged session has just been told that "foo" is no command, while
\* the room's log holds a message and a second session is connected
C23_Witness ==
    /\ lastEvent.ev = "chat message"
    /\ lastEvent.message = MsgUnknown
    /\ lastEvent.id \in admins
    /\ Len(sent) = 1 /\ sent[1].to = {lastEvent.id}
    /\ sent[1].data.message = UnknownCommandNotice(<<"f", "o", "o">>)
    /\ Len(users) = 2
    /\ nextKey \in DOMAIN redisKeys \/ R001 \in DOMAIN fallbackStore

\* the events of a socket that the claim names
SessionEvents == {"chat message", "join room", "leave room", "update username", "disconnect"}

\* C24: an event for a socket id that has no entry in users is a no-op: the
\* step that handles it emits no 'error' and leaves users, rooms, admins,
\* mutedUsers, the stores and the suspended handlers as they were.
C24_UnknownIdIsNoOp ==
    [][ \A id \in RegistrySockets :
          ( /\ ~UsersHas(id)
            /\ lastEvent'.id = id
            /\ lastEvent'.ev \in SessionEvents )
          => /\ UNCHANGED <<users, rooms, admins, mutedUsers, pending, storeVars>>
             /\ \A k \in 1..Len(sent') : sent'[k].ev # "error" ]_vars

\* the part of C24 that holds: every such event but join-room
C24_UnknownIdIsNoOpButJoin ==
    [][ \A id \in RegistrySockets :
          ( /\ ~UsersHas(id)
            /\ lastEvent'.id = id
            /\ lastEvent'.ev \in SessionEvents \ {"join room"} )
          => /\ UNCHANGED <<users, rooms, admins, mutedUsers, pending, storeVars>>
             /\ \A k \in 1..Len(sent') : sent'[k].ev # "error" ]_vars

\* C25: the list sent for get-rooms names exactly the rooms that have a
\* member, each once and with the size of its membership set as userCount,
\* in ascending order of the room number.
C25_RoomsListIsExactAndSorted ==
    [][ lastEvent'.ev = "get rooms" =>
          LET list == sent'[1].data.list
          IN  /\ Len(sent') = 1
              /\ sent'[1].ev = "rooms list" /\ sent'[1].to = {lastEvent'.id}
              /\ {list[i].id : i \in 1..Len(list)}
                    = {r \in DOMAIN rooms : rooms[r] # {}}
              /\ DOMAIN rooms = {r \in DOMAIN rooms : rooms[r] # {}}
              /\ \A i \in 1..Len(list) : list[i].userCount = Cardinality(rooms[list[i].id])
              /\ \A i \in 1..Len(list) : \A j \in 1..Len(list) :
                    i < j => ParseInt(list[i].id) < ParseInt(list[j].id) ]_vars

\* the list just sent names room "001" and then room "100", one member each
C25_Witness ==
    /\ lastEvent.ev = "get rooms"
    /\ Len(sent) = 1
    /\ sent[1].data.list = << [id |-> R001, userCount |-> 1], [id |-> R100, userCount |-> 1] >>

----------------------------------------------------------------------------
(* Properties of the commands and the keep-alive of part_000, continued *)

\* the step stored the text for its sender's room and broadcast it there
HandledAsPlainChat(id, text) ==
    LET room == UsersGet(id).room
    IN  /\ room \in DOMAIN messageStore'
        /\ messageStore'[room][Len(messageStore'[room])].message = text
        /\ Len(sent') = 1
        /\ sent'[1].via = "room" /\ sent'[1].data.room = room
        /\ sent'[1].data.message = text

\* the step answered as "Server Admin" and did not store or broadcast the text
HandledAsCommand(id, text) ==
    /\ Len(sent') >= 1
    /\ \A k \in 1..Len(sent') :
          sent'[k].data.username = ServerAdmin /\ sent'[k].data.message # text
    /\ \A r \in DOMAIN messageStore' : \A k \in 1..Len(messageStore'[r]) :
          messageStore'[r][k].message # text

\* C26: the reserved prefix is matched with its letter case and the literal
\* after it in any letter case: "server!POWER!DOWN!" is the power-down
\* command, and "Server!POWER!down!", whose prefix is not in the case of the
\* reserved token, is plain chat.
C26_PrefixCaseSensitiveLiteralNot ==
    [][ \A id \in PowerSockets :
          /\ (ChatFrom(id) /\ lastEvent'.message = MsgPowerDownUpper)
                => HandledAsCommand(id, MsgPowerDownUpper)
          /\ (ChatFrom(id) /\ lastEvent'.message = MsgPowerDownCaps)
                => HandledAsPlainChat(id, MsgPowerDownCaps) ]_vars

\* the half of C26 that part_000 does: the literal matches in any case
C26_LiteralInAnyCase ==
    [][ \A id \in PowerSockets :
          (ChatFrom(id) /\ lastEvent'.message \in {MsgPowerDownUpper, MsgPowerDownCaps})
             => HandledAsCommand(id, lastEvent'.message) ]_vars

\* one of the emissions is of this event
EmittedEvent(s, ev) == \E k \in 1..Len(s) : s[k].ev = ev

\* the step is an activity of a client that its handler carries out: a plain
\* message of a registered session, a join or a leave that changes the room, a
\* rename of a registered session, a room list query, a pong
ActivityStep ==
    LET id == lastEvent'.id
    IN  \/ /\ lastEvent'.ev = "chat message"
           /\ UsersHas(id)
           /\ ~IsServerCommand(lastEvent'.message)
        \/ lastEvent'.ev = "join room" /\ EmittedEvent(sent', "room joined")
        \/ lastEvent'.ev = "leave room" /\ EmittedEvent(sent', "room left")
        \/ lastEvent'.ev = "update username" /\ UsersHas(id)
        \/ lastEvent'.ev \in {"get rooms", "keep-alive-pong"}

\* the pending timeout is cancelled and another one is armed
Rearmed ==
    /\ keepAliveTimer' # keepAliveTimer
    /\ keepAliveTimer \notin armedTimers'
    /\ armedTimers' = {keepAliveTimer'}

C30_DisabledMeansNoTimerNoPing ==
    /\ [](~keepAliveEnabled =>
            /\ armedTimers = {}
            /\ keepAliveTimer = 0
            /\ StartKeepAlive(Power) = Power)
    /\ [](StopKeepAlive(StopKeepAlive(Power)) = StopKeepAlive(Power))
    /\ [][ /\ ~keepAliveEnabled => ~EmittedEvent(sent', "keep-alive-ping")
           /\ (~keepAliveEnabled /\ ~keepAliveEnabled')
                 => UNCHANGED <<keepAliveTimer, armedTimers>> ]_vars

\* the keep-alive is off, the server is up and a session has just changed
\* its room
C30_Witness ==
    /\ ~keepAliveEnabled
    /\ listening
    /\ lastEvent.ev = "join room"
    /\ EmittedEvent(sent, "room joined")
    /\ armedTimers = {}

\* the timeout has fired, the ping went out and a timeout is armed again
PingStep ==
    /\ lastEvent'.ev = "keep-alive timeout"
    /\ EmittedEvent(sent', "keep-alive-ping")
    /\ keepAliveEnabled' /\ TimerPending'

\* C31: once the server is listening, a keep-alive timeout is armed whenever
\* the flag is on; and if from some point on the server is up, the flag stays
\* on and nothing happens but the firing of the timeout, then again and again
\* the timeout fires, keep-alive-ping is broadcast and a timeout is armed anew.
C31_PingsRecurWhileEnabled ==
    /\ []((listening /\ keepAliveEnabled) => (TimerPending /\ armedTimers \subseteq TimerIds))
    /\ ( ( /\ <>[](listening /\ keepAliveEnabled)
           /\ <>[][lastEvent'.ev = "keep-alive timeout"]_vars )
         => []<><<PingStep>>_vars )

\* the timeout has just fired while the server was up with the flag on: the
\* ping went to the open sockets and the next timeout is armed
C31_Witness ==
    /\ lastEvent.ev = "keep-alive timeout"
    /\ EmittedEvent(sent, "keep-alive-ping")
    /\ Connected # {}
    /\ listening /\ keepAliveEnabled /\ TimerPending

----------------------------------------------------------------------------
(* Properties of the two stores of src/server.js side by side *)

\* what a read gets when Redis answers, and when LRANGE throws
ReadFromRedis(roomId) == GetRecentMessages(Store, roomId, TRUE, {}, now)
ReadFromFallback(roomId) == GetRecentMessages(Store, roomId, FALSE, {}, now)

\* the entries of the room that each store holds and has not expired
RetainedInRedis(roomId) ==
    FetchMessages(redisKeys, RedisLRange(redisLists, roomId, now), {}, now)
RetainedInFallback(roomId) ==
    IF roomId \in DOMAIN fallbackStore THEN FilterLive(fallbackStore[roomId], now) ELSE <<>>

\* after the same appends a read gets the same entries in the same order from
\* either store
C34_ReadsAgree == ReadFromRedis(R001) = ReadFromFallback(R001)

\* C34: fallbackStore trims and expires as Redis does: after the same appends
\* to a room the two hold equally many unexpired entries of it (the same
\* bound on what is retained, the same expiry), and a read served by the one
\* returns what a read served by the other returns, oldest first.
C34_FallbackTrimsAndExpiresAsRedis ==
    /\ Len(RetainedInRedis(R001)) = Len(RetainedInFallback(R001))
    /\ ReadFromRedis(R001) = ReadFromFallback(R001)

\* after is before without the expired entries: what has not expired is
\* kept, in its order, and a room of which nothing is kept has no key
SweptExactly(before, after, t) ==
    /\ DOMAIN after =
         {r \in DOMAIN before : \E i \in 1..Len(before[r]) : before[r][i].expiresAt > t}
    /\ \A r \in DOMAIN after :
         after[r] = SelectSeq(before[r], LAMBDA e : e.expiresAt > t)

\* C35: the hourly cleanup takes out of fallbackStore (and out of part_000's
\* messageStore) the entries whose expiry has passed and no other, keeps the
\* rest in their order, deletes the key of a room of which nothing is left,
\* and changes the answer of no read of any room, whichever store serves it.
C35_SweepRemovesExactlyExpired ==
    [][ /\ lastEvent'.ev = "sweep" =>
             /\ SweptExactly(fallbackStore, fallbackStore', now)
             /\ \A r \in {R001, R100}, ok \in BOOLEAN :
                  GetRecentMessages(Store', r, ok, {}, now)
                      = GetRecentMessages(Store, r, ok, {}, now)
        /\ lastEvent'.ev = "cleanupExpiredMessages" =>
             /\ SweptExactly(messageStore, messageStore', now)
             /\ \A r \in {R001, R100} :
                  MemGetRecentMessages(messageStore', r, now)
                      = MemGetRecentMessages(messageStore, r, now) ]_vars

\* the cleanup has just run on a room's fallback array that had been filled
\* to its cap: one entry is left of it, and that one has not expired
C35_Witness ==
    /\ lastEvent.ev = "sweep"
    /\ nextKey >= HALF_MESSAGES
    /\ R001 \in DOMAIN fallbackStore
    /\ Len(fallbackStore[R001]) = 1
    /\ fallbackStore[R001][1].expiresAt > now

----------------------------------------------------------------------------
(* Properties of the replay of the history in src/server.js *)

\* the steps in which a handler, back from getRecentMessages, sends the
\* history to its socket
ReplayEvents == {"history", "join room resumed"}

\* C36: a message of the history that the connection handler or the join-room
\* handler sends to a socket is of a room the socket is a member of when it
\* is sent, also when the socket has changed rooms while the read was under
\* way.
C36_ReplayStaysInRoom ==
    [][ lastEvent'.ev \in ReplayEvents =>
          \A k \in 1..Len(sent') :
             sent'[k].ev = "chat message" =>
                \A id \in sent'[k].to : sent'[k].data.room \in RoomsOf(id) ]_vars

\* the history of a join is of the room that was joined, and it goes to the
\* socket that joined
C36_JoinReplaysJoinedRoom ==
    [][ lastEvent'.ev = "join room resumed" =>
          \A k \in 1..Len(sent') :
             sent'[k].ev = "chat message" =>
                /\ sent'[k].to \subseteq {lastEvent'.id}
                /\ sent'[k].data.room = lastEvent'.room ]_vars

\* two payloads of "chat message" carry the same message of the log
SameMessage(a, b) ==
    /\ a.room = b.room
    /\ a.username = b.username
    /\ a.message = b.message
    /\ a.timestamp = b.timestamp

\* a chat handler has just broadcast payload to a room, and the socket, whose
\* join of that room is waiting for the history, is among the receivers
LiveDuringJoin(id, payload) ==
    /\ lastEvent.ev = "chat message resumed"
    /\ \E k \in 1..Len(sent) :
         /\ sent[k].ev = "chat message"
         /\ sent[k].data = payload
         /\ id \in sent[k].to
         /\ \E i \in 1..Len(pending) :
              /\ pending[i].kind = "join"
              /\ pending[i].id = id
              /\ pending[i].room = payload.room

\* the join of the socket has just replayed the room's history to it, with
\* that message in it
ReplayedByJoin(id, payload) ==
    /\ lastEvent.ev = "join room resumed"
    /\ lastEvent.id = id
    /\ \E k \in 1..Len(sent) :
         /\ sent[k].ev = "chat message"
         /\ id \in sent[k].to
         /\ SameMessage(sent[k].data, payload)

\* C37: a socket that joins a room gets no message of the room twice: a
\* message that a chat handler broadcasts to it while its join waits for the
\* history is not in the history that the join replays, here in the step
\* that follows the broadcast
C37_NoMessageTwiceOnJoin ==
    [][ \A id \in ChatSockets : \A k \in 1..Len(sent) :
          LiveDuringJoin(id, sent[k].data) => ~ReplayedByJoin(id, sent[k].data)' ]_vars

\* a join never replays a message twice within its history
C37_ReplayHasNoRepeats ==
    lastEvent.ev = "join room resumed" =>
        Cardinality({k \in 1..Len(sent) : sent[k].ev = "chat message"}) <= nextKey

----------------------------------------------------------------------------
(* Properties of the moderation of src/server.js, continued *)

\* the step handles "server!mute <name>" sent by a privileged session
MuteIssued(id, name) ==
    /\ lastEvent'.ev = "chat message"
    /\ lastEvent'.id = id
    /\ lastEvent'.message = ServerPrefix \o CmdMute \o name
    /\ UsersHas(id)
    /\ id \in admins

\* the i-th session of the registry is the first one that has the name
FirstNamed(i, name) ==
    /\ users[i].username = name
    /\ \A j \in 1..(i - 1) : users[j].username # name

\* C32: "server!mute <name>" from a privileged session sets the mute expiry of
\* one session to now + 5 minutes, namely of the first session of the registry
\* whose name is <name> letter for letter, and leaves every other mute entry
\* and the rest of the registry as they were; when no session has the name,
\* the sender alone gets the not-found notice and nothing changes.
C32_MuteHitsFirstExactName ==
    [][ \A id \in MuteSockets, name \in {Bob, BobCaps} :
          MuteIssued(id, name) =>
            /\ UNCHANGED <<users, rooms, admins, sockRooms, pending, storeVars>>
            /\ \A i \in 1..Len(users) :
                 FirstNamed(i, name) =>
                   /\ DOMAIN mutedUsers' = DOMAIN mutedUsers \cup {users[i].id}
                   /\ mutedUsers'[users[i].id] = now + MUTE_MINUTES
                   /\ \A o \in DOMAIN mutedUsers \ {users[i].id} :
                        mutedUsers'[o] = mutedUsers[o]
            /\ (\A i \in 1..Len(users) : users[i].username # name) =>
                   /\ mutedUsers' = mutedUsers
                   /\ Len(sent') = 1
                   /\ sent'[1].via = "socket" /\ sent'[1].to = {id}
                   /\ sent'[1].data.message = NotFoundNotice(name)
      ]_vars

\* two sessions bear the name, the second of them and nobody else is muted
\* already, and the mute has just been set on the first
C32_Witness ==
    /\ lastEvent.ev = "chat message"
    /\ lastEvent.message = MsgMuteBob
    /\ lastEvent.id \in admins
    /\ \E i, j \in 1..Len(users) :
         /\ i < j
         /\ FirstNamed(i, Bob)
         /\ users[j].username = Bob
         /\ DOMAIN mutedUsers = {users[i].id, users[j].id}
         /\ mutedUsers[users[i].id] = now + MUTE_MINUTES
         /\ mutedUsers[users[j].id] < now + MUTE_MINUTES

\* the socket's handler of a plain message is in storeMessage
StoringFor(id) ==
    \E i \in 1..Len(pending) :
        pending[i].kind = "chat" /\ pending[i].id = id /\ pending[i].message = Hi

\* storeMessage has returned to the socket's handler, which has broadcast the
\* message to the room
BroadcastFor(id) ==
    /\ lastEvent.ev = "chat message resumed"
    /\ lastEvent.id = id
    /\ Len(sent) = 1
    /\ sent[1].via = "room" /\ sent[1].ev = "chat message"
    /\ sent[1].data.message = Hi /\ ~sent[1].data.isSystem
    /\ Len(lastResult) = 1 /\ lastResult[1].message = Hi

\* C33: a mute ends when the clock reaches its expiry and by nothing else: a
\* plain message of a session whose mute expiry is not ahead of the clock,
\* whether the entry is still in the table or the cleanup has removed it, is
\* taken to storeMessage with no notice to the sender, and a message taken
\* to storeMessage is stored and broadcast to the room.
C33_MuteEndsByTime ==
    /\ [][ \A id \in ChatSockets :
             ( /\ ChatFrom(id)
               /\ lastEvent'.message = Hi
               /\ (id \in DOMAIN mutedUsers => mutedUsers[id] <= now) )
             => ( sent' = <<>> /\ StoringFor(id)' /\ nextKey' = nextKey + 1 ) ]_vars
    /\ \A id \in ChatSockets : StoringFor(id) ~> BroadcastFor(id)

\* bob, who is not privileged, has spoken when the clock had reached the end
\* of a mute set at the start, and the message has been broadcast
C33_Witness ==
    /\ BroadcastFor(lastEvent.id)
    /\ lastEvent.id \notin admins
    /\ UsersHas(lastEvent.id) /\ UsersGet(lastEvent.id).username = Bob
    /\ lastResult[1].timestamp >= MUTE_MINUTES
    /\ admins # {}

----------------------------------------------------------------------------
(* Properties of the message store of src/server.js, continued *)

\* C27: pushing a key, trimming the list and refreshing its expiry are one
\* critical section: whatever is in progress, the list that Redis holds for a
\* room never has more than 200 keys (MAX_MESSAGES here), and neither has the
\* room's array in fallbackStore.
C27_StoredListNeverOverLength ==
    /\ \A r \in DOMAIN redisLists : Len(redisLists[r].items) <= MAX_MESSAGES
    /\ \A r \in DOMAIN fallbackStore : Len(fallbackStore[r]) <= MAX_MESSAGES

\* the append that took the k-th messageKey is in storeMessage
InStoreMessage(k) ==
    \E i \in 1..Len(pending) :
        pending[i].key = k /\ pending[i].kind \in {"chat", "unanswered"}

\* ... and waits for a reply that never comes
Unanswered(k) ==
    \E i \in 1..Len(pending) : pending[i].key = k /\ pending[i].kind = "unanswered"

\* C28: a Redis call that is not answered is given up after a bounded time and
\* storeMessage goes to the fallback array, so that every append returns (and
\* its message is broadcast, which the handler does on the return) even when
\* Redis never answers.
C28_AppendCompletesWithoutReply ==
    \A k \in 1..MaxAppends : InStoreMessage(k) ~> ~InStoreMessage(k)

\* an append returns when each of its calls is answered, by a reply or by an
\* error
C28_AppendCompletesWhenAnswered ==
    \A k \in 1..MaxAppends : InStoreMessage(k) ~> (~InStoreMessage(k) \/ Unanswered(k))

(***************************************************************************)
(* Properties of leaving and rejoining a room in src/server.js             *)
(***************************************************************************)

\* the last step was a "leave room" of room by id that took effect: the
\* socket left the room and was sent 'room left'
LeaveTookEffect(id, room) ==
    /\ lastEvent.ev = "leave room"
    /\ lastEvent.id = id
    /\ lastEvent.room = room
    /\ Len(sent) = 1
    /\ sent[1].ev = "room left"

\* the last step was a "join room" of room sent by id
JoinRequested(id, room) ==
    /\ lastEvent.ev = "join room"
    /\ lastEvent.id = id
    /\ lastEvent.room = room

\* id is a member of room, in the index and in the adapter
MemberOf(id, room) ==
    /\ room \in DOMAIN rooms
    /\ id \in rooms[room]
    /\ id \in DOMAIN sockRooms
    /\ room \in sockRooms[id]

\* C38: when a "leave room" of room r by a session has taken effect and the
\* same session then sends "join room" r, the handler puts it back into the
\* membership set of r (and goes on to send 'room joined'); here for the
\* join that follows the leave at once
C38_RejoinAfterLeaveIsProcessed ==
    [][ \A id \in RegistrySockets : \A room \in {R001, R100} :
          (LeaveTookEffect(id, room) /\ JoinRequested(id, room)')
             => MemberOf(id, room)' ]_vars

\* a "join room" of a valid room other than the one on the session's record
\* is processed: the socket is a member of that room and the handler waits
\* for the history
C38_JoinOfAnotherRoomIsProcessed ==
    [][ \A id \in RegistrySockets : \A room \in {R001, R100} :
          ( /\ JoinRequested(id, room)'
            /\ UsersHas(id)
            /\ UsersGet(id).room # room )
          => ( /\ MemberOf(id, room)'
               /\ \E i \in 1..Len(pending') :
                     /\ pending'[i].kind = "join"
                     /\ pending'[i].id = id
                     /\ pending'[i].room = room ) ]_vars

(***************************************************************************)
(* Properties of the privileged set and the mute table in src/server.js    *)
(***************************************************************************)

\* C39: no privilege and no mute outlives its session: every id in admins
\* and every key of mutedUsers is a key of users, and the isAdmin flag of a
\* session is set exactly when its id is in admins, whatever the order of
\* logins, mutes, bans, kick timers, sweeps and disconnects
C39_NoPrivilegeOrMuteOutlivesItsSession ==
    /\ admins \subseteq UserIds
    /\ DOMAIN mutedUsers \subseteq UserIds
    /\ \A i \in 1..Len(users) : users[i].isAdmin <=> users[i].id \in admins

\* a session that had logged in (a mute it issued is still in the table)
\* has disconnected, and its privilege went with it
C39_Witness ==
    /\ lastEvent.ev = "disconnect"
    /\ lastEvent.id \in usedIds \ UserIds
    /\ mutedUsers # EmptyMap
    /\ admins = {}
====
